---- MODULE Spec2Model ----
(***************************************************************************)
(* A model of the cn tree of HSE (lib/cn/cn_tree.c): the root node and its *)
(* leaves, each with a list of kvsets (head = newest), the sampling        *)
(* statistics, the compaction pipeline cn_comp (compact, commit, cleanup,  *)
(* release) for k/kv-compact, spill and split, the ordering of concurrent  *)
(* root spills, ingest and the capped-tree trimmer.                        *)
(*                                                                         *)
(* Pointers are modelled by small integers: a node pointer is an index of  *)
(* the function tn, a kvset list entry is named by its kvset id (kid), a   *)
(* compaction work descriptor by its index in jobs.  NULL is 0.            *)
(***************************************************************************)
EXTENDS Integers, Sequences, FiniteSets, TLC

\* ---------------------------------------------------------------------
\* Bounds of the model
\* ---------------------------------------------------------------------
MaxKey == 3

MaxDgen == 3

MaxJobs == 2

MaxLeaves == 2

MaxInitKvsets == 2

\* the edge key of the leaf the tree is opened with
InitEdge == 1

\* the table of a view may run out of memory at any of its first
\* MaxViewRoom + 1 entries
MaxViewRoom == 3

\* the ordinals of the kvset_lookup call that may fail (0: none)
MaxErrAt == 2

\* jobs submitted while lookups or views run
MaxReaderJobs == 1

\* the largest compc of a kvset the tree is opened with
MaxCompc == 2

\* calls of cn_tree_insert_kvset while a tree is built
MaxInserts == 3

\* node ids handed to cn_tree_insert_kvset: 0..MaxNodeid, the tree under
\* construction has the nodes 0 and 1
MaxNodeid == 2

\* ---------------------------------------------------------------------
\* Program constants
\* ---------------------------------------------------------------------
ROOT == 1

NULL == 0

\* no node id: differs from every id cndb_nodeid_mint hands out
CN_TREE_INVALID_NODEID == -1

BUSY_JOB == 65536

AllocUnit == 2

pct_scale == 1024

U16_MAX == 65535

tn_size_max == 8

SP3_RSPILL_RUNLEN_MIN == 1

SP3_LLEN_RUNLEN_MIN == 2

Keys == 1..MaxKey

\* merr values: 0 is success
ESHUTDOWN == "ESHUTDOWN"

ENOMEM == "ENOMEM"

EIO == "EIO"

EBUG == "EBUG"

NOERR == "OK"

\* ---------------------------------------------------------------------
\* Generic helpers
\* ---------------------------------------------------------------------
Min(a, b) == IF a < b THEN a ELSE b

SetMax(S) == CHOOSE x \in S : \A y \in S : y <= x

SetMin(S) == CHOOSE x \in S : \A y \in S : x <= y

Range(s) == {s[i] : i \in 1..Len(s)}

\* index of the list entry holding kvset kid, 0 when it is not on the list
IndexOf(list, kid) ==
    IF \E i \in 1..Len(list) : list[i].kid = kid
    THEN CHOOSE i \in 1..Len(list) : list[i].kid = kid
    ELSE 0

\* ---------------------------------------------------------------------
\* Kvsets (consumed interface): an immutable set of keys with a dgen, a
\* compc and a work-id stamp.
\* ---------------------------------------------------------------------
Kvset(kid, dgen, compc, keys) ==
    [kid |-> kid, dgen |-> dgen, compc |-> compc, keys |-> keys, workid |-> 0]

kvset_get_max_key(kv) == SetMax(kv.keys)

\* allocator-aware size estimator (kbb_estimate_alen / vbb_estimate_alen):
\* the written length rounded up to the allocation unit
estimate_alen(wlen) == ((wlen + AllocUnit - 1) \div AllocUnit) * AllocUnit

\* kvset_statsp(): one kvset, its keys, allocated and written length
kvset_stats(kv) ==
    [kvsets |-> 1,
     keys   |-> Cardinality(kv.keys),
     alen   |-> estimate_alen(Cardinality(kv.keys)),
     wlen   |-> Cardinality(kv.keys)]

ZeroNs == [kvsets |-> 0, keys |-> 0, alen |-> 0, wlen |-> 0, keys_uniq |-> 0, clen |-> 0, pcap |-> 0]

ZeroSamp == [r_alen |-> 0, r_wlen |-> 0, i_alen |-> 0, l_alen |-> 0, l_good |-> 0]

SampAdd(a, b) ==
    [r_alen |-> a.r_alen + b.r_alen, r_wlen |-> a.r_wlen + b.r_wlen,
     i_alen |-> a.i_alen + b.i_alen, l_alen |-> a.l_alen + b.l_alen,
     l_good |-> a.l_good + b.l_good]

SampSub(a, b) ==
    [r_alen |-> a.r_alen - b.r_alen, r_wlen |-> a.r_wlen - b.r_wlen,
     i_alen |-> a.i_alen - b.i_alen, l_alen |-> a.l_alen - b.l_alen,
     l_good |-> a.l_good - b.l_good]

\* ---------------------------------------------------------------------
\* Nodes
\* ---------------------------------------------------------------------
cn_node_alloc(nodeid) ==
    [nodeid     |-> nodeid,
     isroot     |-> (nodeid = 0),
     kvsets     |-> <<>>,
     cgen       |-> 0,
     compacting |-> 0,
     busycnt    |-> 0,
     hlog       |-> [present |-> TRUE, keys |-> {}],
     ns         |-> ZeroNs,
     samp       |-> ZeroSamp,
     incr_dgen  |-> 0,
     route_node |-> NULL,
     rspills    |-> <<>>,
     wedged     |-> FALSE]

cn_node_isleaf(n) == ~n.isroot

cn_node_isroot(n) == n.isroot

\* ---------------------------------------------------------------------
\* Sampling engine
\* ---------------------------------------------------------------------
tn_samp_clear(n) ==
    [n EXCEPT
        !.hlog = IF ~cn_node_isleaf(n) /\ n.hlog.present
                 THEN [present |-> FALSE, keys |-> {}]
                 ELSE IF n.hlog.present THEN [present |-> TRUE, keys |-> {}]
                 ELSE n.hlog,
        !.ns = ZeroNs,
        !.samp = ZeroSamp,
        !.incr_dgen = 0]

\* a variant that folds the kvset in whatever the watermark is
tn_samp_update_incr_always(n, kv, force) ==
    [folded |-> TRUE,
     node |-> [n EXCEPT
         !.hlog = IF n.hlog.present
                  THEN [present |-> TRUE, keys |-> n.hlog.keys \cup kv.keys]
                  ELSE n.hlog,
         !.ns = [n.ns EXCEPT
                   !.kvsets = @ + kvset_stats(kv).kvsets,
                   !.keys   = @ + kvset_stats(kv).keys,
                   !.alen   = @ + kvset_stats(kv).alen,
                   !.wlen   = @ + kvset_stats(kv).wlen],
         !.incr_dgen = IF n.incr_dgen < kv.dgen THEN kv.dgen ELSE n.incr_dgen]]

\* returns the node and whether the kvset was folded in
tn_samp_update_incr(n, kv, force) ==
    IF ~force /\ kv.dgen <= n.incr_dgen
    THEN [folded |-> FALSE, node |-> n]
    ELSE [folded |-> TRUE,
          node |-> [n EXCEPT
              !.hlog = IF n.hlog.present
                       THEN [present |-> TRUE, keys |-> n.hlog.keys \cup kv.keys]
                       ELSE n.hlog,
              !.ns = [n.ns EXCEPT
                        !.kvsets = @ + kvset_stats(kv).kvsets,
                        !.keys   = @ + kvset_stats(kv).keys,
                        !.alen   = @ + kvset_stats(kv).alen,
                        !.wlen   = @ + kvset_stats(kv).wlen],
              !.incr_dgen = IF n.incr_dgen < kv.dgen THEN kv.dgen ELSE n.incr_dgen]]

tn_samp_update_finish(n) ==
    LET num_keys == n.ns.keys
        uniq0    == IF n.hlog.present THEN Cardinality(n.hlog.keys) ELSE num_keys
        uniq     == IF uniq0 > num_keys THEN num_keys ELSE uniq0
        pct      == IF num_keys > 0 THEN (pct_scale * uniq) \div num_keys ELSE pct_scale
        new_wlen == (n.ns.wlen * pct) \div pct_scale
        clen     == Min(estimate_alen(new_wlen), n.ns.alen)
        ns2      == [n.ns EXCEPT !.keys_uniq = uniq,
                                 !.clen = clen,
                                 !.pcap = Min(U16_MAX, (100 * clen) \div tn_size_max)]
    IN [n EXCEPT
          !.ns = ns2,
          !.samp = IF cn_node_isleaf(n)
                   THEN [r_alen |-> 0, r_wlen |-> 0, i_alen |-> 0,
                         l_alen |-> ns2.alen, l_good |-> ns2.clen]
                   ELSE [r_alen |-> IF cn_node_isroot(n) THEN ns2.alen ELSE 0,
                         r_wlen |-> IF cn_node_isroot(n) THEN ns2.wlen ELSE 0,
                         i_alen |-> ns2.alen, l_alen |-> 0, l_good |-> 0]]

RECURSIVE FoldKvsets(_, _)
FoldKvsets(n, list) ==
    IF list = <<>> THEN n
    ELSE FoldKvsets(tn_samp_update_incr(n, Head(list), TRUE).node, Tail(list))

\* a variant that adds the new samp without taking the prior one off
SampAddNew(total, new, orig) == SampAdd(total, new)

\* the tree total after the node went from samp orig to samp new
SampApplyDelta(total, new, orig) == SampAdd(total, SampSub(new, orig))

\* returns the node after the update and the tree-wide samp
cn_tree_samp_update_compact(total, n) ==
    LET orig   == n.samp
        folded == FoldKvsets(tn_samp_clear(n), n.kvsets)
        n2     == IF n.kvsets # <<>> THEN tn_samp_update_finish(folded) ELSE folded
    IN [node |-> n2, total |-> SampApplyDelta(total, n2.samp, orig)]

cn_tree_samp_update_ingest(total, n) ==
    IF n.kvsets = <<>> THEN [node |-> n, total |-> total]
    ELSE LET orig == n.samp
             r    == tn_samp_update_incr(n, Head(n.kvsets), FALSE)
             n2   == IF r.folded THEN tn_samp_update_finish(r.node) ELSE r.node
         IN [node |-> n2, total |-> SampApplyDelta(total, n2.samp, orig)]

\* ---------------------------------------------------------------------
\* Route map (consumed interface): a set of route nodes [key, tnode]
\* ordered by edge key.  A key resolves to the node with the smallest edge
\* key >= the key; the last node takes every key above the penultimate
\* edge.
\* ---------------------------------------------------------------------
RouteNode(key, tnode) == [key |-> key, tnode |-> tnode]

route_map_last(map) == CHOOSE e \in map : \A f \in map : f.key <= e.key

route_map_lookup(map, key) ==
    IF map = {} THEN NULL
    ELSE IF \E e \in map : e.key >= key
         THEN (CHOOSE e \in map : e.key >= key /\ \A f \in map : f.key >= key => e.key <= f.key).tnode
         ELSE route_map_last(map).tnode

route_node_islast(map, e) == \A f \in map : f.key <= e.key

route_node_keycmp(e, key) == IF e.key < key THEN -1 ELSE IF e.key > key THEN 1 ELSE 0

\* NULL (the map unchanged) when the edge key is already in the map
route_map_insert_ok(map, key) == \A e \in map : e.key # key

\* a variant that returns a route node it did not link into the map
route_map_insert_nothing(map, tnode, key) == map

route_map_insert(map, tnode, key) == map \cup {RouteNode(key, tnode)}

route_node_key_modify(map, e, key) == (map \ {e}) \cup {RouteNode(key, e.tnode)}

\* ---------------------------------------------------------------------
\* State
\* ---------------------------------------------------------------------
VARIABLES
    tn,           \* node pointer -> struct cn_tree_node
    ct_nodes,     \* tree->ct_nodes: the list of node pointers, root first
    ct_samp,      \* tree->ct_samp
    route_map,    \* tree->ct_route_map
    jobs,         \* the compaction work descriptors, in submission order
    thr,          \* the worker thread of each job: [pc, cur, node]
    ingest_dgen,  \* cn's ingest dgen
    kid_next,     \* last kvset id minted
    nodeid_next,  \* last node id minted by cndb_nodeid_mint
    capped,       \* cn_is_capped(tree->cn)
    ct_last_pt,   \* tree->ct_last_ptlen, ct_last_ptomb, ct_last_ptseq
    trim,         \* the capped trimmer: its position and its snapshot
    phase,        \* "open" from cn_tree_create until cn_tree_destroy
    asserts,      \* the assert()s of the code that failed so far
    ct_lock,      \* tree->ct_lock: the number of threads holding it for read
    kvrefs,       \* kvset id -> reference count, of the kvsets not yet freed
    lookup,       \* the thread in cn_tree_lookup
    view,         \* the thread in cn_tree_view_create and its table
    insert_call   \* the last call of cn_tree_insert_kvset: arguments and result

vars == <<tn, ct_nodes, ct_samp, route_map, jobs, thr, ingest_dgen, kid_next,
          nodeid_next, capped, ct_last_pt, trim, phase, asserts, ct_lock, kvrefs,
          lookup, view, insert_call>>

\* the readers of the tree: left alone by every step of the writers
readers == <<lookup, view>>

\* ---------------------------------------------------------------------
\* tree->ct_lock (rmlock) and the kvset reference counts
\* ---------------------------------------------------------------------
\* a variant that takes the lock for write without waiting for the readers
rmlock_wlock_nowait(lock) == TRUE

\* rmlock_wlock returns once no thread holds the lock for read; the
\* writers of the model hold it for one step
rmlock_wlock(lock) == lock = 0

rmlock_rlock(lock) == lock + 1

rmlock_runlock(lock) == lock - 1

\* the references of a kvset that kvset_open has just returned
kvset_open_ref(refs, kid) == (kid :> 1) @@ refs

\* a variant that records the kvset without taking a reference
kvset_no_ref(refs, kid) == refs

kvset_get_ref(refs, kid) ==
    IF kid \in DOMAIN refs THEN [refs EXCEPT ![kid] = @ + 1] ELSE refs

\* the kvset is freed when its last reference is dropped
kvset_put_ref(refs, kid) ==
    IF kid \notin DOMAIN refs THEN refs
    ELSE IF refs[kid] = 1 THEN [k \in DOMAIN refs \ {kid} |-> refs[k]]
    ELSE [refs EXCEPT ![kid] = @ - 1]

RECURSIVE kvset_put_refs(_, _)
kvset_put_refs(refs, kids) ==
    IF kids = <<>> THEN refs
    ELSE kvset_put_refs(kvset_put_ref(refs, Head(kids)), Tail(kids))

RECURSIVE kvset_open_refs(_, _)
kvset_open_refs(refs, kids) ==
    IF kids = <<>> THEN refs
    ELSE kvset_open_refs(kvset_open_ref(refs, Head(kids)), Tail(kids))

\* the kvset ids of a list, head first
KidsOf(list) == [i \in 1..Len(list) |-> list[i].kid]

LookupIdle == [pc |-> "idle"]

\* no call of cn_tree_insert_kvset so far
NoCall == [nodeid |-> 0, dgen |-> 0, err |-> NOERR]

ViewIdle == [pc |-> "idle", ents |-> <<>>]

Leaves == {p \in Range(ct_nodes) : ~tn[p].isroot}

\* the route node tn_route_node points to
RouteNodeOf(p) == RouteNode(tn[p].route_node, p)

\* key sets of the kvsets the model ingests or starts with
KeySets == {{MaxKey}, Keys}

\* ---------------------------------------------------------------------
\* cn_tree_create, the leaves and kvsets put in at open, cn_tree_samp_init
\* ---------------------------------------------------------------------
NoPtomb == [ptlen |-> 0, ptomb |-> 0, ptseq |-> 0]

\* the trimmer between two runs; seqno_horizon, horizon, pt, first, logged, txn, naks,
\* raced (the head of the list was not the first of the snapshot when the run was cut off) and
\* evicted tell what its last run computed and did, capped_dgen and
\* capped_le are tree->ct_capped_dgen and tree->ct_capped_le
TrimIdle ==
    [pc |-> "idle", mark |-> NULL, kvset_cnt |-> 0, seqno_horizon |-> 0, horizon |-> 0,
     pt |-> NoPtomb,
     first |-> NULL, logged |-> <<>>, txn |-> FALSE, naks |-> 0, evicted |-> <<>>,
     raced |-> FALSE, capped_dgen |-> 0, capped_le |-> NULL]

RECURSIVE SampInitNodes(_, _, _)
SampInitNodes(nodes, order, total) ==
    IF order = <<>> THEN [nodes |-> nodes, total |-> total]
    ELSE LET r == cn_tree_samp_update_compact(total, nodes[Head(order)])
         IN SampInitNodes([nodes EXCEPT ![Head(order)] = r.node], Tail(order), r.total)

cn_tree_samp_init(nodes, order) == SampInitNodes(nodes, order, ZeroSamp)

\* a variant that links every kvset at the head
InsertPosHead(list, dgen, i) == 1

\* cn_node_insert_kvset: before the first entry with a smaller dgen
RECURSIVE InsertPos(_, _, _)
InsertPos(list, dgen, i) ==
    IF i > Len(list) \/ dgen > list[i].dgen THEN i ELSE InsertPos(list, dgen, i + 1)

cn_node_insert_kvset(n, kv) ==
    LET i == InsertPos(n.kvsets, kv.dgen, 1)
    IN [n EXCEPT !.kvsets = SubSeq(@, 1, i - 1) \o <<kv>> \o SubSeq(@, i, Len(@))]

\* the assert() of cn_node_insert_kvset on the entries it walks over
InsertDgenAsserts(list, dgen) ==
    IF \E i \in 1..(InsertPos(list, dgen, 1) - 1) : list[i].dgen = dgen
    THEN {"insert_dgen"}
    ELSE {}

\* cn_tree_find_node: the first node of the tree with this node id
cn_tree_find_node(nodes, order, nodeid) ==
    LET hit == {i \in 1..Len(order) : nodes[order[i]].nodeid = nodeid}
    IN IF hit = {} THEN NULL ELSE order[SetMin(hit)]

cn_tree_insert_kvset(nodes, order, kv, nodeid) ==
    LET node == cn_tree_find_node(nodes, order, nodeid)
        first == IF order # <<>> /\ order[1] = ROOT THEN {} ELSE {"insert_root_first"}
    IN IF node = NULL
       THEN [err |-> EBUG, nodes |-> nodes, asserts |-> first \cup {"insert_node"}]
       ELSE [err |-> NOERR,
             nodes |-> [nodes EXCEPT ![node] = cn_node_insert_kvset(@, kv)],
             asserts |-> first \cup InsertDgenAsserts(nodes[node].kvsets, kv.dgen)]

\* the leaf's kvsets at open, none or MaxInitKvsets of them: dgens cnt..1,
\* kvset ids equal to the dgens
InitLists == UNION {[1..c -> KeySets] : c \in {0, MaxInitKvsets}}

RECURSIVE InsertAll(_, _, _)
InsertAll(n, ks, i) ==
    IF i > Len(ks) THEN n
    ELSE InsertAll(cn_node_insert_kvset(n, Kvset(i, i, 0, ks[i])), ks, i + 1)

Init ==
    \E edge \in {InitEdge}, ks \in InitLists, cap \in BOOLEAN :
        LET root  == cn_node_alloc(0)
            leaf  == [InsertAll(cn_node_alloc(1), ks, 1) EXCEPT !.route_node = edge]
            built == (ROOT :> root) @@ (2 :> leaf)
            r     == cn_tree_samp_init(built, <<ROOT, 2>>)
        IN /\ (cap => ks = <<>>)
           /\ tn = r.nodes
           /\ ct_nodes = <<ROOT, 2>>
           /\ ct_samp = r.total
           /\ route_map = {RouteNode(edge, 2)}
           /\ jobs = <<>>
           /\ thr = <<>>
           /\ ingest_dgen = Len(ks)
           /\ kid_next = Len(ks)
           /\ nodeid_next = 1
           /\ capped = cap
           /\ ct_last_pt = NoPtomb
           /\ trim = TrimIdle
           /\ phase = "open"
           /\ asserts = {}
           /\ ct_lock = 0
           /\ kvrefs = [k \in 1..Len(ks) |-> 1]
           /\ lookup = LookupIdle
           /\ view = ViewIdle
           /\ insert_call = NoCall

\* ---------------------------------------------------------------------
\* cn_tree_ingest_update
\* ---------------------------------------------------------------------
\* a variant that links the kvset at the tail of the list
kvset_list_add_at_tail(list, kv) == list \o <<kv>>

kvset_list_add_head(list, kv) == <<kv>> \o list

\* the largest prefix tombstone of an ingest and its seqno; none for a tree
\* that is not capped
Ptombs(seq) ==
    IF capped
    THEN {NoPtomb} \cup {[ptlen |-> 1, ptomb |-> k, ptseq |-> seq] : k \in Keys}
    ELSE {NoPtomb}

\* the four assert()s on the tree samp before and after the update
IngestAsserts(pre, post) ==
    (IF post.i_alen >= pre.i_alen THEN {} ELSE {"ingest_i_alen"})
    \cup (IF post.r_wlen >= pre.r_wlen THEN {} ELSE {"ingest_r_wlen"})
    \cup (IF post.l_alen = pre.l_alen THEN {} ELSE {"ingest_l_alen"})
    \cup (IF post.l_good = pre.l_good THEN {} ELSE {"ingest_l_good"})

Ingest ==
    /\ phase = "open"
    /\ ingest_dgen < MaxDgen
    /\ rmlock_wlock(ct_lock)
    /\ \E keys \in KeySets, pt \in Ptombs(ingest_dgen + 1) :
        LET kv   == Kvset(kid_next + 1, ingest_dgen + 1, 0, keys)
            root == [tn[ROOT] EXCEPT !.kvsets = kvset_list_add_head(@, kv),
                                     !.cgen = @ + 1]
            r    == cn_tree_samp_update_ingest(ct_samp, root)
        IN /\ tn' = [tn EXCEPT ![ROOT] = r.node]
           /\ ct_samp' = r.total
           /\ kid_next' = kid_next + 1
           /\ ingest_dgen' = ingest_dgen + 1
           /\ ct_last_pt' = IF capped THEN pt ELSE ct_last_pt
           /\ asserts' = asserts \cup IngestAsserts(ct_samp, r.total)
           /\ kvrefs' = kvset_open_ref(kvrefs, kv.kid)
    /\ UNCHANGED insert_call
    /\ UNCHANGED <<ct_nodes, route_map, jobs, thr, nodeid_next, capped, trim, phase,
                   ct_lock, readers>>

\* ---------------------------------------------------------------------
\* The per-node compaction token
\* ---------------------------------------------------------------------
\* a variant that sets the token without comparing
cn_node_comp_token_take(n) == [ok |-> TRUE, node |-> [n EXCEPT !.compacting = 1]]

\* atomic_cas(&tn->tn_compacting, 0, 1): ok is the value returned
cn_node_comp_token_get(n) ==
    IF n.compacting = 0
    THEN [ok |-> TRUE, node |-> [n EXCEPT !.compacting = 1]]
    ELSE [ok |-> FALSE, node |-> n]

\* atomic_cas(&tn->tn_compacting, 1, 0): ok is the value the code asserts
cn_node_comp_token_put(n) ==
    IF n.compacting = 1
    THEN [ok |-> TRUE, node |-> [n EXCEPT !.compacting = 0]]
    ELSE [ok |-> FALSE, node |-> n]

\* ---------------------------------------------------------------------
\* The scheduler (sp3_work): picks the input window of a job, stamps the
\* inputs with the work-id, counts the job in tn_busycnt, takes the token
\* and queues a root spill on tn_rspills.
\* ---------------------------------------------------------------------
Work(node, action, list, m, cnt, token, conc) ==
    [node               |-> node,
     action             |-> action,
     mark               |-> list[m].kid,
     kvset_cnt          |-> cnt,
     dgen_lo            |-> list[m].dgen,
     dgen_hi            |-> list[m - cnt + 1].dgen,
     compc              |-> list[m].compc,
     have_token         |-> token,
     rspill_conc        |-> conc,
     rspill_done        |-> 0,
     commit_in_progress |-> 0,
     err                |-> NOERR,
     canceled           |-> FALSE,
     cancel_request     |-> FALSE,
     compact_health     |-> <<>>,
     stage              |-> "submitted",
     picks              |-> 0,
     completions        |-> 0,
     txn_nak            |-> FALSE,
     naks               |-> 0,
     opened             |-> <<>>,
     events             |-> <<>>,
     dropped            |-> <<>>,
     samp_pre           |-> ZeroSamp,
     samp_post          |-> ZeroSamp,
     drop_tombs         |-> FALSE,
     outs               |-> <<>>,
     split_key          |-> 0,
     ev_rekey           |-> FALSE,
     nodeidv            |-> <<CN_TREE_INVALID_NODEID, CN_TREE_INVALID_NODEID>>]

MarkInputs(list, m, cnt, workid) ==
    [i \in 1..Len(list) |->
        IF i \in (m - cnt + 1)..m THEN [list[i] EXCEPT !.workid = workid] ELSE list[i]]

AddJob(w) ==
    /\ jobs' = Append(jobs, w)
    /\ thr' = Append(thr, [pc |-> "compact", cur |-> Len(jobs) + 1, node |-> NULL])

\* a root spill: the run starts at the oldest kvset no job has reserved; the
\* token is held only while the work is set up
SubmitSpill ==
    /\ phase = "open" /\ ~capped /\ Len(jobs) < MaxJobs
    /\ LET root == tn[ROOT]
           list == root.kvsets
           free == {i \in 1..Len(list) : list[i].workid = 0}
           got  == cn_node_comp_token_get(root)
       IN /\ got.ok
          /\ free # {}
          /\ \E cnt \in 1..SetMax(free) :
                LET m == SetMax(free)
                    w == Work(ROOT, "SPILL", list, m, cnt, FALSE, TRUE)
                IN /\ \A i \in (m - cnt + 1)..m : i \in free
                   /\ tn' = [tn EXCEPT ![ROOT] =
                                [cn_node_comp_token_put(got.node).node EXCEPT
                                    !.kvsets = MarkInputs(list, m, cnt, w.dgen_lo),
                                    !.busycnt = @ + BUSY_JOB + cnt,
                                    !.rspills = Append(@, Len(jobs) + 1)]]
                   /\ AddJob(w)
    /\ UNCHANGED insert_call
    /\ UNCHANGED <<ct_nodes, ct_samp, route_map, ingest_dgen, kid_next, nodeid_next,
                   capped, ct_last_pt, trim, phase, asserts, ct_lock, kvrefs, readers>>

\* a k-compact or kv-compact of a run of a leaf
SubmitCompact ==
    /\ phase = "open" /\ ~capped /\ Len(jobs) < MaxJobs
    /\ \E p \in Leaves, action \in {"COMPACT_K", "COMPACT_KV"} :
        LET n    == tn[p]
            list == n.kvsets
            got  == cn_node_comp_token_get(n)
        IN /\ got.ok
           /\ \E m \in 1..Len(list) : \E cnt \in 1..m :
                LET w == Work(p, action, list, m, cnt, TRUE, FALSE)
                IN /\ action = "COMPACT_K" => cnt >= SP3_LLEN_RUNLEN_MIN
                   /\ \A i \in (m - cnt + 1)..m : list[i].workid = 0
                   /\ tn' = [tn EXCEPT ![p] =
                                [got.node EXCEPT
                                    !.kvsets = MarkInputs(list, m, cnt, w.dgen_lo),
                                    !.busycnt = @ + BUSY_JOB + cnt]]
                   /\ AddJob(w)
    /\ UNCHANGED insert_call
    /\ UNCHANGED <<ct_nodes, ct_samp, route_map, ingest_dgen, kid_next, nodeid_next,
                   capped, ct_last_pt, trim, phase, asserts, ct_lock, kvrefs, readers>>

\* a split of a leaf: every kvset of the node is an input
SubmitSplit ==
    /\ phase = "open" /\ ~capped /\ Len(jobs) < MaxJobs
    /\ Cardinality(Leaves) < MaxLeaves
    /\ \E p \in Leaves :
        LET n    == tn[p]
            list == n.kvsets
            got  == cn_node_comp_token_get(n)
            w    == Work(p, "SPLIT", list, Len(list), Len(list), TRUE, FALSE)
        IN /\ got.ok
           /\ list # <<>>
           /\ \A i \in 1..Len(list) : list[i].workid = 0
           /\ tn' = [tn EXCEPT ![p] =
                        [got.node EXCEPT
                            !.kvsets = MarkInputs(list, Len(list), Len(list), w.dgen_lo),
                            !.busycnt = @ + BUSY_JOB + Len(list)]]
           /\ AddJob(w)
    /\ UNCHANGED insert_call
    /\ UNCHANGED <<ct_nodes, ct_samp, route_map, ingest_dgen, kid_next, nodeid_next,
                   capped, ct_last_pt, trim, phase, asserts, ct_lock, kvrefs, readers>>

\* ---------------------------------------------------------------------
\* cn_comp_compact: preparation and the merge (cn_kcompact, cn_spill,
\* cn_split)
\* ---------------------------------------------------------------------
\* the input kvsets of a job, newest first: kvset_cnt entries ending at mark
InputsOf(list, w) ==
    LET idx == IndexOf(list, w.mark)
    IN IF idx < w.kvset_cnt THEN <<>> ELSE SubSeq(list, idx - w.kvset_cnt + 1, idx)

KeysOf(list) == UNION {list[i].keys : i \in 1..Len(list)}

\* cn_tree_prepare_compaction: the error it returns
PrepareErr(n, w) ==
    IF w.action = "SPLIT" /\ n.ns.kvsets # w.kvset_cnt THEN EBUG ELSE NOERR

\* cn_tree_prepare_compaction: w->cw_outc
PrepareOutc(w, fanout) ==
    IF w.action = "SPLIT" THEN 2 * w.kvset_cnt
    ELSE IF w.action \in {"COMPACT_K", "COMPACT_KV"} THEN 1
    ELSE fanout

\* a variant that looks at the action only
PrepareDropTombsNotSpill(n, w) == w.action # "SPILL"

\* cn_tree_prepare_compaction: w->cw_drop_tombs
PrepareDropTombs(n, w) ==
    /\ w.action # "SPILL"
    /\ n.kvsets # <<>>
    /\ w.mark = n.kvsets[Len(n.kvsets)].kid

RECURSIVE SortRoute(_)
SortRoute(map) ==
    IF map = {} THEN <<>>
    ELSE LET e == CHOOSE e \in map : \A f \in map : e.key <= f.key
         IN <<e>> \o SortRoute(map \ {e})

Out(keys, dgen, dest) == [keys |-> keys, dgen |-> dgen, dest |-> dest, kid |-> 0]

\* cn_spill for a root spill: one output per leaf of the route map, holding
\* the input keys the route map resolves to that leaf
SpillOuts(map, ins, w) ==
    LET sr == SortRoute(map)
    IN [i \in 1..Len(sr) |->
          Out({k \in KeysOf(ins) : route_map_lookup(map, k) = sr[i].tnode},
              w.dgen_hi, sr[i].tnode)]

\* cn_kcompact, and cn_spill for a kv-compact: one output with the keys of
\* the inputs, or none at all when every key was annihilated
CompactOuts(ins, w, empty) ==
    <<Out(IF empty THEN {} ELSE KeysOf(ins), w.dgen_hi, w.node)>>

\* cn_split: input i goes to output i (keys <= the split key) and output
\* kvset_cnt + i (keys above it), each with the dgen of its input
SplitOuts(ins, w, K) ==
    [i \in 1..(2 * Len(ins)) |->
        IF i <= Len(ins)
        THEN Out({k \in ins[i].keys : k <= K}, ins[i].dgen, NULL)
        ELSE Out({k \in ins[i - Len(ins)].keys : k > K}, ins[i - Len(ins)].dgen, w.node)]

\* the kvset ids of the outputs that have blocks; 0 for the others
MintKids(outs, base) ==
    [i \in 1..Len(outs) |->
        IF outs[i].keys = {} THEN outs[i]
        ELSE [outs[i] EXCEPT !.kid =
                 base + Cardinality({x \in 1..i : outs[x].keys # {}})]]

Valid(outs) == Cardinality({x \in 1..Len(outs) : outs[x].keys # {}})

\* the keys the route map may resolve to node p: above the edge key of the
\* node before it, up to its own edge key unless it is the last node
RouteRange(map, p) ==
    LET e == CHOOSE e \in map : e.tnode = p
        below == {f.key : f \in {g \in map : g.key < e.key}}
        lo == IF below = {} THEN 0 ELSE SetMax(below)
    IN {k \in Keys : k > lo /\ (route_node_islast(map, e) \/ k <= e.key)}

\* the keys cn_split may choose as the split key: in the range the route
\* map gives the node and not above the largest key of the node
SplitKeys(map, n, w) ==
    {K \in RouteRange(map, w.node) : K <= SetMax(KeysOf(InputsOf(n.kvsets, w)))}

\* a variant that reports the error of a canceled build as well
CompactHealthAll(hc, prep, res, canceled) ==
    IF hc # NOERR THEN <<>>
    ELSE IF prep # NOERR THEN <<prep>>
    ELSE IF res # NOERR THEN <<res>>
    ELSE <<>>

\* what cn_comp_compact hands to kvdb_health_error: the error of the
\* preparation, and the error of the build unless the job is canceled; a
\* failed health check is not handed back to the health channel
CompactHealth(hc, prep, res, canceled) ==
    IF hc # NOERR THEN <<>>
    ELSE IF prep # NOERR THEN <<prep>>
    ELSE IF res # NOERR /\ ~canceled THEN <<res>>
    ELSE <<>>

\* hc is the result of kvdb_health_check, res the result of the build,
\* cancel the value read from the cancel request of the tree after the build
cn_comp_compact(w, n, map, hc, res, K, empty, cancel) ==
    LET ins  == InputsOf(n.kvsets, w)
        prep == IF hc # NOERR THEN NOERR ELSE PrepareErr(n, w)
        err  == IF hc # NOERR THEN hc ELSE IF prep # NOERR THEN prep ELSE res
        canceled == hc = NOERR /\ prep = NOERR /\ res = ESHUTDOWN /\ cancel
        outs == IF w.action = "SPILL" THEN SpillOuts(map, ins, w)
                ELSE IF w.action = "SPLIT" THEN SplitOuts(ins, w, K)
                ELSE CompactOuts(ins, w, empty)
    IN IF w.err # NOERR THEN [w EXCEPT !.stage = "compacted"]
       ELSE [w EXCEPT
          !.err = IF canceled /\ err = NOERR THEN ESHUTDOWN ELSE err,
          !.canceled = canceled,
          !.cancel_request = cancel,
          !.compact_health = CompactHealth(hc, prep, res, canceled),
          !.stage = "compacted",
          !.drop_tombs = hc = NOERR /\ prep = NOERR /\ PrepareDropTombs(n, w),
          !.split_key = IF w.action = "SPLIT" /\ err = NOERR THEN K ELSE 0,
          !.outs = IF err = NOERR THEN MintKids(outs, kid_next) ELSE <<>>]

\* the results of the health check and of the build, and the values of
\* the cancel request, a compaction step is taken with; the cancel request
\* is read only after a build that returned shutdown
CompactInputs(detail) ==
    IF detail
    THEN {<<NOERR, NOERR, FALSE>>, <<NOERR, EIO, FALSE>>, <<EIO, NOERR, FALSE>>}
         \cup {<<NOERR, ESHUTDOWN, cancel>> : cancel \in BOOLEAN}
    ELSE {<<NOERR, NOERR, FALSE>>, <<NOERR, EIO, FALSE>>}

\* cn_comp up to the call of get_completed_spill or cn_comp_finish; detail
\* tells whether a canceled build and a failed health check are told apart,
\* fine whether the read of cw_node that follows the setting of
\* cw_rspill_done is a step of its own
CompactWith(detail, fine) ==
    /\ phase = "open"
    /\ \E j \in 1..Len(jobs) :
        /\ thr[j].pc = "compact"
        /\ \E inp \in CompactInputs(detail), K \in Keys, empty \in BOOLEAN :
            LET w  == jobs[j]
                n  == tn[w.node]
                hc == inp[1]
                res == inp[2]
                w2 == cn_comp_compact(w, n, route_map, hc, res, K, empty, inp[3])
            IN /\ IF w.action = "SPLIT" /\ w.err = NOERR /\ hc = NOERR
                     /\ PrepareErr(n, w) = NOERR /\ res = NOERR
                  THEN K \in SplitKeys(route_map, n, w)
                  ELSE K = 1
               /\ empty => /\ w.action \in {"COMPACT_K", "COMPACT_KV"}
                           /\ PrepareDropTombs(n, w)
                           /\ w.err = NOERR /\ hc = NOERR /\ res = NOERR
               /\ jobs' = [jobs EXCEPT ![j] =
                             [w2 EXCEPT !.rspill_done = IF w.rspill_conc THEN 1 ELSE 0]]
               /\ thr' = [thr EXCEPT
                             ![j].pc = IF ~w.rspill_conc THEN "commit"
                                       ELSE IF fine THEN "node" ELSE "pick",
                             ![j].node = IF w.rspill_conc /\ ~fine THEN w.node ELSE @]
               /\ kid_next' = kid_next + Valid(w2.outs)
    /\ UNCHANGED insert_call
    /\ UNCHANGED <<tn, ct_nodes, ct_samp, route_map, ingest_dgen, nodeid_next, capped,
                   ct_last_pt, trim, phase, asserts, ct_lock, kvrefs, readers>>

Compact == CompactWith(FALSE, FALSE)

CompactCancel == CompactWith(TRUE, FALSE)

\* cn_comp up to atomic_set(&w->cw_rspill_done, 1) for a root spill
CompactSetDone == CompactWith(FALSE, TRUE)

\* cn_comp: node = w->cw_node, the statement after cw_rspill_done is set.
\* The descriptor is freed by the worker that releases the job: a read of
\* a freed descriptor gives any node pointer or NULL, and the thread that
\* read NULL ends in get_completed_spill
ReadNode ==
    /\ phase = "open"
    /\ \E t \in 1..Len(thr) :
        /\ thr[t].pc = "node"
        /\ \E p \in (IF jobs[t].stage = "released"
                     THEN DOMAIN tn \cup {NULL}
                     ELSE {jobs[t].node}) :
              thr' = [thr EXCEPT ![t].pc = IF p = NULL THEN "crashed" ELSE "pick",
                                 ![t].node = p]
    /\ UNCHANGED insert_call
    /\ UNCHANGED <<tn, ct_nodes, ct_samp, route_map, jobs, ingest_dgen, kid_next,
                   nodeid_next, capped, ct_last_pt, trim, phase, asserts, ct_lock, kvrefs,
                   readers>>

\* cn_comp_cancel_cb: the scheduler cancels a job it has not started; the
\* job is marked canceled with the error shutdown and then runs cn_comp
cn_comp_cancel_cb ==
    /\ phase = "open"
    /\ \E j \in 1..Len(jobs) :
        /\ thr[j].pc = "compact"
        /\ jobs[j].stage = "submitted"
        /\ jobs[j].err = NOERR
        /\ jobs' = [jobs EXCEPT ![j].canceled = TRUE, ![j].err = ESHUTDOWN]
    /\ UNCHANGED insert_call
    /\ UNCHANGED <<tn, ct_nodes, ct_samp, route_map, thr, ingest_dgen, kid_next,
                   nodeid_next, capped, ct_last_pt, trim, phase, asserts, ct_lock, kvrefs,
                   readers>>

\* ---------------------------------------------------------------------
\* get_completed_spill
\* ---------------------------------------------------------------------
\* a variant that hands out the head again while its commit is in progress
get_completed_spill_again(n, jv) ==
    IF n.rspills = <<>> THEN [w |-> NULL, jobs |-> jv]
    ELSE LET h == Head(n.rspills)
         IN IF jv[h].rspill_done = 0
            THEN [w |-> NULL, jobs |-> jv]
            ELSE [w |-> h, jobs |-> [jv EXCEPT ![h].commit_in_progress = 1,
                                               ![h].picks = @ + 1]]

\* any spill of the list that is done and not yet picked
get_any_completed_spill(n, jv) ==
    LET done == {h \in Range(n.rspills) :
                    jv[h].rspill_done = 1 /\ jv[h].commit_in_progress = 0}
    IN IF done = {} THEN [w |-> NULL, jobs |-> jv]
       ELSE LET h == SetMax(done)
            IN [w |-> h,
                jobs |-> [jv EXCEPT ![h] =
                            [@ EXCEPT !.commit_in_progress = 1, !.stage = "committing"]]]

\* returns the job picked (NULL for none) and the work descriptors
get_completed_spill(n, jv) ==
    IF n.rspills = <<>> THEN [w |-> NULL, jobs |-> jv]
    ELSE LET h == Head(n.rspills)
         IN IF jv[h].rspill_done = 0 \/ jv[h].commit_in_progress = 1
            THEN [w |-> NULL, jobs |-> jv]
            ELSE [w |-> h,
                  jobs |-> [jv EXCEPT ![h] =
                     [@ EXCEPT
                        !.commit_in_progress = 1,
                        !.picks = @ + 1,
                        !.stage = "committing",
                        !.err = IF n.wedged /\ jv[h].err = NOERR THEN ESHUTDOWN ELSE @,
                        !.canceled = IF n.wedged /\ jv[h].err = NOERR THEN TRUE ELSE @]]]

Pick ==
    /\ phase = "open"
    /\ \E t \in 1..Len(thr) :
        /\ thr[t].pc = "pick"
        /\ LET r == get_completed_spill(tn[thr[t].node], jobs)
           IN /\ jobs' = r.jobs
              /\ thr' = [thr EXCEPT ![t].pc = IF r.w = NULL THEN "exit" ELSE "commit",
                                     ![t].cur = r.w]
    /\ UNCHANGED insert_call
    /\ UNCHANGED <<tn, ct_nodes, ct_samp, route_map, ingest_dgen, kid_next, nodeid_next,
                   capped, ct_last_pt, trim, phase, asserts, ct_lock, kvrefs, readers>>

\* ---------------------------------------------------------------------
\* Tree updates (cn_comp_update_kvcompact, _spill, _split)
\* ---------------------------------------------------------------------
\* a variant that adds the new kvset at the head of the node's list
SpliceAtHead(list, lo, idx, new) ==
    new \o SubSeq(list, 1, lo - 1) \o SubSeq(list, idx + 1, Len(list))

\* list_del of the kvset_cnt entries from mark toward the head, then
\* kvset_list_add of the new kvset after the entry that preceded them
KvcompactSplice(list, lo, idx, new) ==
    SubSeq(list, 1, lo - 1) \o new \o SubSeq(list, idx + 1, Len(list))

\* new is <<>> or the one new kvset
cn_comp_update_kvcompact(nodes, total, w, new) ==
    LET n    == nodes[w.node]
        idx  == IndexOf(n.kvsets, w.mark)
        lo   == idx - w.kvset_cnt + 1
        n1   == [n EXCEPT !.kvsets = KvcompactSplice(@, lo, idx, new),
                          !.cgen = IF new # <<>> THEN @ + 1 ELSE @]
        r    == cn_tree_samp_update_compact(total, n1)
    IN [tn      |-> [nodes EXCEPT ![w.node] =
                        [r.node EXCEPT !.busycnt = @ - (BUSY_JOB + w.kvset_cnt)]],
        ct_samp |-> r.total,
        samp_pre  |-> total,
        samp_post |-> r.total,
        asserts |-> IF n.kvsets[idx].workid = w.dgen_lo THEN {} ELSE {"kvcompact_workid"}]

\* kvset_list_add(kvsets[i], &node->tn_kvset_list) for every output
RECURSIVE SpillAddOutputs(_, _)
SpillAddOutputs(nodes, kvs) ==
    IF kvs = <<>> THEN nodes
    ELSE LET o == Head(kvs)
         IN SpillAddOutputs(
                [nodes EXCEPT ![o.dest] =
                    [@ EXCEPT !.kvsets = kvset_list_add_head(@, o.kv), !.cgen = @ + 1]],
                Tail(kvs))

\* a variant that takes the kvset_cnt newest entries off the list
SpillRemoveNewest(list, cnt) == SubSeq(list, cnt + 1, Len(list))

\* the source list without its kvset_cnt oldest entries
SpillRemoveInputs(list, cnt) == SubSeq(list, 1, Len(list) - cnt)

RECURSIVE SampIngestLeaves(_, _, _)
SampIngestLeaves(nodes, leaves, total) ==
    IF leaves = <<>> THEN [nodes |-> nodes, total |-> total]
    ELSE LET r == cn_tree_samp_update_ingest(total, nodes[Head(leaves)])
         IN SampIngestLeaves([nodes EXCEPT ![Head(leaves)] = r.node], Tail(leaves), r.total)

cn_tree_samp_update_spill(nodes, order, total, p) ==
    LET r == cn_tree_samp_update_compact(total, nodes[p])
    IN SampIngestLeaves([nodes EXCEPT ![p] = r.node], Tail(order), r.total)

\* kvs: the kvsets opened, each with its destination node
cn_comp_update_spill(nodes, order, total, w, kvs) ==
    LET n1    == SpillAddOutputs(nodes, kvs)
        list  == n1[w.node].kvsets
        n2    == [n1 EXCEPT ![w.node] =
                    [@ EXCEPT !.cgen = @ + 1,
                              !.kvsets = SpillRemoveInputs(@, w.kvset_cnt)]]
        r     == cn_tree_samp_update_spill(n2, order, total, w.node)
    IN [tn      |-> [r.nodes EXCEPT ![w.node] =
                        [@ EXCEPT !.busycnt = @ - (BUSY_JOB + w.kvset_cnt)]],
        ct_samp |-> r.total,
        samp_pre  |-> total,
        samp_post |-> r.total,
        asserts |-> (IF Len(list) >= w.kvset_cnt THEN {} ELSE {"spill_list_empty"})
                    \cup (IF list # <<>> /\ list[Len(list)].dgen = w.dgen_lo
                          THEN {} ELSE {"spill_dgen_lo"})]

\* list_add: the variant that links the node at the head of the list
list_add(order, p) == <<p>> \o order

\* list_add_tail(&left->tn_link, &tree->ct_nodes)
list_add_tail(order, p) == Append(order, p)

\* the variant that returns the smallest key of the node
cn_tree_node_get_min_key(n) == SetMin(KeysOf(n.kvsets))

\* cn_tree_node_get_max_key
cn_tree_node_get_max_key(n) == SetMax(KeysOf(n.kvsets))

\* the split edge-key fix-up is needed: the right node is the last route
\* node and its edge key is not above the split key
SplitNeedsRekey(map, rn, K) ==
    route_node_islast(map, rn) /\ route_node_keycmp(rn, K) <= 0

\* cn_split_nodeids_get: a node id is minted for each half with a kvset
cn_split_nodeids_get(w, last) ==
    LET cnt   == w.kvset_cnt
        left  == \E x \in 1..Len(w.outs) : x <= cnt /\ w.outs[x].kid # 0
        right == \E x \in 1..Len(w.outs) : x > cnt /\ w.outs[x].kid # 0
    IN <<IF left THEN last + 1 ELSE CN_TREE_INVALID_NODEID,
         IF right THEN last + (IF left THEN 2 ELSE 1) ELSE CN_TREE_INVALID_NODEID>>

\* the samp updates of the split: for (i = 0; i < 2 && nodev[i]; i++)
\* each pass writes cw_samp_pre and cw_samp_post; ran tells whether the
\* loop made a pass
SplitSampUpdate(nodes, total, nodev) ==
    IF nodev[1] = NULL
    THEN [nodes |-> nodes, total |-> total, ran |-> FALSE, pre |-> total, post |-> total]
    ELSE LET r1 == cn_tree_samp_update_compact(total, nodes[nodev[1]])
             n1 == [nodes EXCEPT ![nodev[1]] = r1.node]
         IN IF nodev[2] = NULL
            THEN [nodes |-> n1, total |-> r1.total, ran |-> TRUE,
                  pre |-> total, post |-> r1.total]
            ELSE LET r2 == cn_tree_samp_update_compact(r1.total, n1[nodev[2]])
                 IN [nodes |-> [n1 EXCEPT ![nodev[2]] = r2.node], total |-> r2.total,
                     ran |-> TRUE, pre |-> r1.total, post |-> r2.total]

\* the tree and the work descriptor after a split update that succeeded
SplitUpdated(r, w, order, map, rekeyed, edgeok) ==
    [tn        |-> [r.nodes EXCEPT ![w.node] =
                      [@ EXCEPT !.busycnt = @ - (BUSY_JOB + w.kvset_cnt)]],
     ct_nodes  |-> order,
     ct_samp   |-> r.total,
     route_map |-> map,
     ev_rekey  |-> rekeyed,
     samp_pre  |-> IF r.ran THEN r.pre ELSE w.samp_pre,
     samp_post |-> IF r.ran THEN r.post ELSE w.samp_post,
     asserts   |-> IF edgeok THEN {} ELSE {"split_edge_key"},
     err       |-> NOERR]

\* kvs[i]: <<>> or the kvset opened for output i; fail: the step that fails
cn_comp_update_split(nodes, order, total, map, w, kvs, nodeidv, fail) ==
    LET cnt      == w.kvset_cnt
        K        == w.split_key
        haveL    == nodeidv[1] # CN_TREE_INVALID_NODEID
        haveR    == nodeidv[2] # CN_TREE_INVALID_NODEID
        lp       == Cardinality(DOMAIN nodes) + 1
        Flat(a, b) == LET F[x \in (a - 1)..b] == IF x < a THEN <<>> ELSE F[x - 1] \o kvs[x]
                      IN F[b]
        left     == [cn_node_alloc(nodeidv[1]) EXCEPT !.kvsets = Flat(1, cnt)]
        right    == nodes[w.node]
        rekey    == cn_tree_node_get_max_key(right)
        rn       == RouteNode(right.route_node, w.node)
        rekeyed  == haveR /\ SplitNeedsRekey(map, rn, K)
        right1   == IF haveR
                    THEN [right EXCEPT !.nodeid = nodeidv[2],
                                       !.kvsets = Flat(cnt + 1, Len(kvs)),
                                       !.route_node = IF rekeyed /\ fail # "modify"
                                                      THEN rekey ELSE @]
                    ELSE [right EXCEPT !.kvsets = <<>>]
        map1     == IF rekeyed /\ fail # "modify"
                    THEN route_node_key_modify(map, rn, rekey) ELSE map
        nodes1   == [nodes EXCEPT ![w.node] = right1]
        insok    == route_map_insert_ok(map1, K) /\ fail # "insert"
        nodes2   == IF haveL
                    THEN (lp :> [left EXCEPT !.route_node = K]) @@ nodes1
                    ELSE nodes1
        map2     == IF haveL THEN route_map_insert(map1, lp, K) ELSE map1
        order2   == IF haveL THEN list_add_tail(order, lp) ELSE order
        nodev    == <<IF haveL THEN lp ELSE NULL, IF haveR THEN w.node ELSE NULL>>
        r        == SplitSampUpdate(nodes2, total, nodev)
        same     == [tn |-> nodes, ct_nodes |-> order, ct_samp |-> total,
                     route_map |-> map, asserts |-> {}, ev_rekey |-> rekeyed,
                     samp_pre |-> w.samp_pre, samp_post |-> w.samp_post]
    IN IF haveL /\ fail = "alloc"
       THEN same @@ [err |-> ENOMEM]
       ELSE IF rekeyed /\ fail = "modify"
       THEN [same EXCEPT !.tn = nodes1] @@ [err |-> ENOMEM]
       ELSE IF haveL /\ ~insok
       THEN [same EXCEPT !.tn = nodes1, !.route_map = map1] @@ [err |-> ENOMEM]
       ELSE SplitUpdated(r, w, order2, map2, rekeyed,
                         ~(haveR /\ route_node_keycmp(RouteNode(right1.route_node,
                                                                 w.node), K) <= 0))

\* ---------------------------------------------------------------------
\* cn_comp_commit
\* ---------------------------------------------------------------------
\* a variant that bumps the compc whatever the next older kvset has
CompactCompcAlways(list, w) == w.compc + 1

\* compc of the output of a k/kv-compact: bumped unless that would put it
\* above the next older kvset of the node
CompactCompc(list, w) ==
    LET idx == IndexOf(list, w.mark)
    IN IF idx = Len(list) \/ w.compc < list[idx + 1].compc
       THEN w.compc + 1 ELSE w.compc

\* compc of a spill output: seeded when it is the first kvset of a node and
\* large (the model counts one kblock per key)
SpillCompc(dest, o) ==
    IF dest.ns.kvsets = 0 /\ Cardinality(o.keys) > 2 THEN 7 ELSE 0

\* kvset_open of output i; <<>> when the output has no hblock
OpenOut(nodes, w, i) ==
    LET o == w.outs[i]
    IN IF o.kid = 0 THEN <<>>
       ELSE <<Kvset(o.kid,
                    IF w.action = "SPLIT" THEN o.dgen ELSE w.dgen_hi,
                    IF w.action = "SPILL" THEN SpillCompc(nodes[o.dest], o)
                    ELSE IF w.action = "SPLIT" THEN w.compc
                    ELSE CompactCompc(nodes[w.node].kvsets, w),
                    o.keys)>>

\* the opened kvsets of a spill, each with its cw_output_nodev entry
SpillKvsets(nodes, w) ==
    LET F[i \in 0..Len(w.outs)] ==
            IF i = 0 THEN <<>>
            ELSE IF w.outs[i].kid = 0 THEN F[i - 1]
            ELSE Append(F[i - 1], [kv |-> OpenOut(nodes, w, i)[1], dest |-> w.outs[i].dest])
    IN F[Len(w.outs)]

\* the kvset ids of outputs lo..hi of a job that were opened, in order
OutKidSeq(w, lo, hi) ==
    LET F[i \in (lo - 1)..hi] ==
            IF i < lo THEN <<>>
            ELSE IF w.outs[i].kid = 0 THEN F[i - 1] ELSE Append(F[i - 1], w.outs[i].kid)
    IN F[hi]

\* the retired list of a tree update, head first: the kvset_cnt oldest
\* kvsets of the source of a spill, every kvset of the source of a split,
\* the inputs of a k/kv-compact
KidsRetired(list, w) ==
    IF w.action = "SPILL" THEN KidsOf(SubSeq(list, Len(list) - w.kvset_cnt + 1, Len(list)))
    ELSE IF w.action = "SPLIT" THEN KidsOf(list)
    ELSE KidsOf(InputsOf(list, w))

\* the failures cn_comp_commit can meet: of the journal or the mblock
\* commit, and of the three fallible steps of the split update
CommitFails(w, map, nodes) ==
    LET ids   == cn_split_nodeids_get(w, 0)
        haveL == ids[1] # CN_TREE_INVALID_NODEID
        haveR == ids[2] # CN_TREE_INVALID_NODEID
        rn    == RouteNode(nodes[w.node].route_node, w.node)
    IN {"none"}
       \cup (IF w.err = NOERR THEN {"journal"} ELSE {})
       \cup (IF w.action = "SPLIT" /\ haveL THEN {"alloc", "insert"} ELSE {})
       \cup (IF w.action = "SPLIT" /\ haveR /\ SplitNeedsRekey(map, rn, w.split_key)
             THEN {"modify"} ELSE {})

\* a variant that frees the vector of output kvsets without a put
cn_comp_commit_leak(err, kvsets, txn_nak, opened) ==
    [naks |-> IF err # NOERR /\ kvsets /\ txn_nak THEN 1 ELSE 0, puts |-> <<>>]

\* the done: label of cn_comp_commit; kvsets tells whether the vector of
\* output kvsets was allocated, opened lists the kvsets opened so far
cn_comp_commit_done(err, kvsets, txn_nak, opened) ==
    [naks |-> IF err # NOERR /\ kvsets /\ txn_nak THEN 1 ELSE 0,
     puts |-> IF err # NOERR /\ kvsets THEN opened ELSE <<>>]

\* a journal or allocator call of cn_comp_commit, or its tree update: op
\* the call, i the output or input it is made for, ok its result
Ev(op, i) == [op |-> op, i |-> i, ok |-> TRUE]

\* the add, the mblock commit and the open of outputs 1..hi that have an
\* hblock, in index order
OutputEvents(w, hi) ==
    LET F[i \in 0..hi] ==
            IF i = 0 THEN <<>>
            ELSE IF w.outs[i].kid = 0 THEN F[i - 1]
            ELSE F[i - 1] \o <<Ev("add", i), Ev("commit", i), Ev("open", i)>>
    IN F[hi]

\* the delete records of the inputs, from mark toward the head
DeleteEvents(w) == [k \in 1..w.kvset_cnt |-> Ev("delete", k)]

\* the acks of the adds of the outputs that have an hblock
AckEvents(w) ==
    LET F[i \in 0..Len(w.outs)] ==
            IF i = 0 THEN <<>>
            ELSE IF w.outs[i].kid = 0 THEN F[i - 1]
            ELSE Append(F[i - 1], Ev("ack", i))
    IN F[Len(w.outs)]

\* a variant that logs the delete records before the outputs are added
CommitStepsDeletesFirst(w) ==
    <<Ev("txstart", 0)>> \o DeleteEvents(w) \o OutputEvents(w, Len(w.outs))
        \o AckEvents(w) \o <<Ev("update", 0)>>

\* the calls of a cn_comp_commit that meets no failure, in program order
CommitSteps(w) ==
    <<Ev("txstart", 0)>> \o OutputEvents(w, Len(w.outs)) \o DeleteEvents(w)
        \o AckEvents(w) \o <<Ev("update", 0)>>

\* the calls made by a cn_comp_commit whose call f returns ok: every
\* failure goes to done:, an allocation fails before the first call
CommitTrace(w, f, ok) ==
    LET s == CommitSteps(w)
    IN IF f.op = "alloc" THEN <<>>
       ELSE LET k == CHOOSE k \in 1..Len(s) : s[k] = f
            IN Append(SubSeq(s, 1, k - 1), [f EXCEPT !.ok = ok])

\* the calls that can fail at place at of CommitFailAt
CommitFaultsAt(w, at) ==
    IF at = -1 THEN {Ev("alloc", 0)}
    ELSE IF at = 0 THEN {Ev("txstart", 0)}
    ELSE IF at <= Len(w.outs) THEN {Ev(op, at) : op \in {"add", "commit", "open"}}
    ELSE Range(DeleteEvents(w)) \cup Range(AckEvents(w))

\* the places a journal or mblock step of cn_comp_commit can fail at: -1 an
\* allocation, 0 cndb_record_txstart, i the add, commit or open of output
\* i, one past the outputs the delete records and the acks
CommitFailAt(w) ==
    {-1, 0, Len(w.outs) + 1} \cup {i \in 1..Len(w.outs) : w.outs[i].kid # 0}

\* the references after a commit that reached the tree update: one on each
\* opened output, the retired kvsets put by an update that succeeded, the
\* outputs put at done: by one that failed
CommitRefs(refs, err, opened, retired) ==
    kvset_put_refs(kvset_put_refs(kvset_open_refs(refs, opened),
                                  IF err = NOERR THEN retired ELSE <<>>),
                   cn_comp_commit_done(err, TRUE, TRUE, opened).puts)

\* the work descriptor after a commit that reached the tree update
CommitUpdated(w, r, ids, opened) ==
    LET d == cn_comp_commit_done(r.err, TRUE, TRUE, opened)
    IN [w EXCEPT !.stage = "committed",
                 !.err = r.err,
                 !.ev_rekey = r.ev_rekey,
                 !.samp_pre = r.samp_pre,
                 !.samp_post = r.samp_post,
                 !.nodeidv = ids,
                 !.txn_nak = TRUE,
                 !.naks = @ + d.naks,
                 !.opened = opened,
                 !.events = CommitTrace(w, Ev("update", 0), r.err = NOERR),
                 !.dropped = d.puts]

\* cn_comp_commit; detail tells whether each place of a journal failure is
\* told apart or the failure is taken at cndb_record_txstart
CommitWith(detail) ==
    /\ phase = "open"
    /\ \E t \in 1..Len(thr) :
        /\ thr[t].pc = "commit"
        /\ LET j == thr[t].cur
               w == jobs[j]
           IN \E fail \in CommitFails(w, route_map, tn) :
              LET ids == IF w.action = "SPLIT" /\ fail # "journal"
                         THEN cn_split_nodeids_get(w, nodeid_next)
                         ELSE w.nodeidv
                  minted == Cardinality({x \in 1..2 : ids[x] # CN_TREE_INVALID_NODEID})
                  kvs == [x \in 1..Len(w.outs) |-> OpenOut(tn, w, x)]
                  r == IF w.action = "SPLIT"
                       THEN cn_comp_update_split(tn, ct_nodes, ct_samp, route_map, w, kvs,
                                                 ids, fail)
                       ELSE [ct_nodes |-> ct_nodes, route_map |-> route_map, err |-> NOERR,
                             ev_rekey |-> FALSE]
                            @@ (IF w.action = "SPILL"
                                THEN cn_comp_update_spill(tn, ct_nodes, ct_samp, w,
                                                          SpillKvsets(tn, w))
                                ELSE cn_comp_update_kvcompact(tn, ct_samp, w, kvs[1]))
                  opened  == OutKidSeq(w, 1, Len(w.outs))
                  retired == KidsRetired(tn[w.node].kvsets, w)
              IN IF w.err # NOERR
                 THEN /\ fail = "none"
                      /\ jobs' = [jobs EXCEPT ![j].stage = "committed"]
                      /\ UNCHANGED <<tn, ct_nodes, ct_samp, route_map, nodeid_next, asserts,
                                     kvrefs>>
                 ELSE IF fail = "journal"
                 THEN /\ \E at \in (IF detail THEN CommitFailAt(w) ELSE {0}) :
                         \E f \in CommitFaultsAt(w, at) :
                           LET part == OutKidSeq(w, 1, IF at < 1 THEN 0 ELSE at - 1)
                               d    == cn_comp_commit_done(EIO, at >= 0, at >= 1, part)
                           IN /\ jobs' = [jobs EXCEPT ![j].stage = "committed",
                                                      ![j].err = EIO,
                                                      ![j].txn_nak = at >= 1,
                                                      ![j].naks = @ + d.naks,
                                                      ![j].opened = part,
                                                      ![j].events =
                                                          CommitTrace(w, f, FALSE),
                                                      ![j].dropped = d.puts]
                              /\ kvrefs' = kvset_put_refs(kvset_open_refs(kvrefs, part),
                                                          d.puts)
                      /\ UNCHANGED <<tn, ct_nodes, ct_samp, route_map, nodeid_next, asserts>>
                 ELSE /\ rmlock_wlock(ct_lock)
                      /\ kvrefs' = CommitRefs(kvrefs, r.err, opened, retired)
                      /\ tn' = r.tn
                      /\ ct_nodes' = r.ct_nodes
                      /\ ct_samp' = r.ct_samp
                      /\ route_map' = r.route_map
                      /\ asserts' = asserts \cup r.asserts
                      /\ nodeid_next' = nodeid_next + minted
                      /\ jobs' = [jobs EXCEPT ![j] =
                                    CommitUpdated(w, r, ids, opened)]
        /\ thr' = [thr EXCEPT ![t].pc = "release"]
    /\ UNCHANGED insert_call
    /\ UNCHANGED <<ingest_dgen, kid_next, capped, ct_last_pt, trim, phase, ct_lock,
                   readers>>

Commit == CommitWith(FALSE)

\* cn_comp_commit with every place of a journal failure
CommitJournal == CommitWith(TRUE)

\* ---------------------------------------------------------------------
\* cn_comp_cleanup and cn_comp_release
\* ---------------------------------------------------------------------
\* a variant that leaves the work-ids of the inputs set
KeepMarks(list, w) == list

\* kvset_set_workid(le->le_kvset, 0) for the kvset_cnt entries from mark
UnmarkInputs(list, w) ==
    LET idx == IndexOf(list, w.mark)
    IN [i \in 1..Len(list) |->
          IF idx # 0 /\ i \in (idx - w.kvset_cnt + 1)..idx
          THEN [list[i] EXCEPT !.workid = 0] ELSE list[i]]

\* list_del_init(&w->cw_rspill_link)
RspillDel(q, j) == SelectSeq(q, LAMBDA x : x # j)

\* a variant that leaves the node as it is after a failed spill
cn_comp_cleanup_nowedge(n, w) == n

cn_comp_cleanup(n, w) ==
    IF w.err # NOERR /\ w.rspill_conc /\ ~n.wedged THEN [n EXCEPT !.wedged = TRUE] ELSE n

\* returns the node and the assertions that failed
cn_comp_release(n, w, j) ==
    LET headok == n.rspills # <<>> /\ Head(n.rspills) = j
        n1  == IF w.rspill_conc THEN [n EXCEPT !.rspills = RspillDel(@, j)] ELSE n
        ins == InputsOf(n1.kvsets, w)
        n2  == IF w.err # NOERR THEN [n1 EXCEPT !.kvsets = UnmarkInputs(@, w)] ELSE n1
        put == cn_node_comp_token_put(n2)
    IN [node    |-> IF w.have_token THEN put.node ELSE n2,
        asserts |-> (IF w.rspill_conc /\ ~headok THEN {"release_head"} ELSE {})
                    \cup (IF w.err # NOERR /\ \E i \in 1..Len(ins) : ins[i].workid = 0
                          THEN {"release_workid"} ELSE {})
                    \cup (IF w.have_token /\ ~put.ok THEN {"token_put"} ELSE {})]

\* cn_comp_finish after the commit: cleanup and release, then back to the
\* loop of cn_comp for a spill thread
Release ==
    /\ phase = "open"
    /\ \E t \in 1..Len(thr) :
        /\ thr[t].pc = "release"
        /\ LET j == thr[t].cur
               w == jobs[j]
               r == cn_comp_release(cn_comp_cleanup(tn[w.node], w), w, j)
           IN /\ tn' = [tn EXCEPT ![w.node] = r.node]
              /\ asserts' = asserts \cup r.asserts
              /\ jobs' = [jobs EXCEPT ![j].stage = "released",
                                      ![j].completions = @ + 1]
              /\ thr' = [thr EXCEPT ![t].pc = IF thr[t].node # NULL THEN "pick" ELSE "exit",
                                     ![t].cur = NULL]
    /\ UNCHANGED insert_call
    /\ UNCHANGED <<ct_nodes, ct_samp, route_map, ingest_dgen, kid_next, nodeid_next,
                   capped, ct_last_pt, trim, phase, ct_lock, kvrefs, readers>>

\* ---------------------------------------------------------------------
\* cn_tree_capped_compact
\* ---------------------------------------------------------------------
\* seqnos are handed out in ingest order: the max seqno of a kvset is the
\* ordinal of its ingest
kvset_get_seqno_max(kv) == kv.dgen

\* a variant that looks at the seqno only
TrimStopsAtSeqno(kv, pt, horizon) == kvset_get_seqno_max(kv) >= horizon

\* the walk of step 1 stops at this kvset
TrimStops(kv, pt, horizon) ==
    \/ pt.ptlen = 0
    \/ kvset_get_seqno_max(kv) >= horizon
    \/ pt.ptomb < kvset_get_max_key(kv)

\* step 1: the number of kvsets, from the last toward the first and never
\* the first, that can be retired
RECURSIVE TrimCount(_, _, _, _)
TrimCount(list, i, pt, horizon) ==
    IF i <= 1 \/ TrimStops(list[i], pt, horizon) THEN 0
    ELSE 1 + TrimCount(list, i - 1, pt, horizon)

\* a variant that advises the eviction of every kvset of the snapshot
cn_tree_capped_evict_all(list, t, early, young) ==
    [evicted |-> KidsOf(list), capped_dgen |-> t.capped_dgen, capped_le |-> t.capped_le]

\* cn_tree_capped_evict over the snapshot first..last: early tells that
\* ct_capped_ttl is not reached, young that the kvset looked at has not
\* lived its ttl; returns the kvsets advised and ct_capped_dgen, ct_capped_le
cn_tree_capped_evict(list, t, early, young) ==
    LET keep == [evicted |-> <<>>, capped_dgen |-> t.capped_dgen, capped_le |-> t.capped_le]
        last == IF t.capped_dgen > list[Len(list)].dgen
                THEN IndexOf(list, t.capped_le) ELSE Len(list)
    IN IF early \/ young THEN keep
       ELSE IF last # 1
       THEN [evicted |-> <<list[last].kid>>, capped_dgen |-> list[last - 1].dgen,
             capped_le |-> list[last - 1].kid]
       ELSE [keep EXCEPT !.evicted = <<list[last].kid>>]

\* the journal calls of step 2 that can fail: the transaction start and
\* the delete record of the k-th kvset from mark toward the tail
TrimFaults(cnt, detail) ==
    IF detail THEN {0} \cup {-1} \cup 1..cnt ELSE {0, -1}

\* a variant that logs no delete record for the oldest kvset of the run
TrimLoggedButLast(list, cnt, fault) ==
    KidsOf(SubSeq(list, Len(list) - cnt + 1,
                  IF fault = 0 THEN Len(list) - 1 ELSE Len(list) - cnt + fault - 1))

\* the kvsets a delete record was logged for, from mark toward the tail:
\* all of the run when nothing fails (fault 0), those before the record
\* that failed otherwise
TrimLogged(list, cnt, fault) ==
    KidsOf(SubSeq(list, Len(list) - cnt + 1,
                  IF fault = 0 THEN Len(list) ELSE Len(list) - cnt + fault - 1))

\* steps 1 and 2: the snapshot, the walk and the journal records; fault is
\* 0 for none, -1 for cndb_record_txstart, k for the k-th delete record;
\* detail tells whether the run is recorded and the eviction advice
\* followed
TrimScanWith(detail) ==
    /\ phase = "open" /\ capped /\ trim.pc = "idle"
    /\ \E seqno_horizon \in 0..(ingest_dgen + 1), early \in BOOLEAN, young \in BOOLEAN :
        LET list    == tn[ROOT].kvsets
            horizon == Min(seqno_horizon, ct_last_pt.ptseq)
            cnt     == TrimCount(list, Len(list), ct_last_pt, horizon)
        IN \E fault \in TrimFaults(cnt, detail) :
           LET ev == cn_tree_capped_evict(list, trim, early, young)
           IN /\ ~detail => (early /\ young)
              /\ (Len(list) <= 1 \/ cnt = 0) => (fault = 0 /\ (Len(list) <= 1 => early /\ young))
              /\ IF Len(list) <= 1
                 THEN UNCHANGED trim
                 ELSE IF cnt = 0 \/ fault # 0
                 THEN IF detail
                      THEN trim' = [TrimIdle EXCEPT
                                      !.seqno_horizon = seqno_horizon,
                                      !.horizon = horizon,
                                      !.pt = ct_last_pt,
                                      !.first = list[1].kid,
                                      !.kvset_cnt = cnt,
                                      !.logged = IF cnt = 0 \/ fault = -1 THEN <<>>
                                                 ELSE TrimLogged(list, cnt, fault),
                                      !.txn = cnt # 0 /\ fault # -1,
                                      !.naks = IF cnt # 0 /\ fault > 0 THEN 1 ELSE 0,
                                      !.evicted = ev.evicted,
                                      !.capped_dgen = ev.capped_dgen,
                                      !.capped_le = ev.capped_le]
                      ELSE UNCHANGED trim
                 ELSE trim' = [TrimIdle EXCEPT
                                 !.pc = "apply",
                                 !.mark = list[Len(list) - cnt + 1].kid,
                                 !.kvset_cnt = cnt,
                                 !.seqno_horizon = IF detail THEN seqno_horizon ELSE 0,
                                 !.horizon = IF detail THEN horizon ELSE 0,
                                 !.pt = IF detail THEN ct_last_pt ELSE NoPtomb,
                                 !.first = IF detail THEN list[1].kid ELSE NULL,
                                 !.logged = IF detail THEN TrimLogged(list, cnt, 0) ELSE <<>>,
                                 !.txn = detail,
                                 !.capped_dgen = trim.capped_dgen,
                                 !.capped_le = trim.capped_le]
    /\ UNCHANGED insert_call
    /\ UNCHANGED <<tn, ct_nodes, ct_samp, route_map, jobs, thr, ingest_dgen, kid_next,
                   nodeid_next, capped, ct_last_pt, phase, asserts, ct_lock, kvrefs, readers>>

\* a variant that also cuts the entry above mark
list_trim_above(list, mark) == SubSeq(list, 1, IndexOf(list, mark) - 2)

\* list_trim: the list without the entries from mark to the tail
list_trim(list, mark) == SubSeq(list, 1, IndexOf(list, mark) - 1)

\* steps 3 and 4
TrimApply ==
    /\ phase = "open" /\ trim.pc = "apply"
    /\ rmlock_wlock(ct_lock)
    /\ LET list == tn[ROOT].kvsets
           root == [tn[ROOT] EXCEPT !.kvsets = list_trim(@, trim.mark)]
           r    == cn_tree_samp_update_compact(ct_samp, root)
       IN /\ tn' = [tn EXCEPT ![ROOT] = r.node]
          /\ ct_samp' = r.total
          /\ kvrefs' = kvset_put_refs(kvrefs,
                           KidsOf(SubSeq(list, IndexOf(list, trim.mark), Len(list))))
    /\ trim' = [TrimIdle EXCEPT
                   !.logged = trim.logged,
                   !.raced = trim.first # NULL /\ tn[ROOT].kvsets[1].kid # trim.first,
                   !.capped_dgen = trim.capped_dgen,
                   !.capped_le = trim.capped_le]
    /\ UNCHANGED insert_call
    /\ UNCHANGED <<ct_nodes, route_map, jobs, thr, ingest_dgen, kid_next, nodeid_next,
                   capped, ct_last_pt, phase, asserts, ct_lock, readers>>

TrimScan == TrimScanWith(FALSE)

TrimScanEvict == TrimScanWith(TRUE)

\* ---------------------------------------------------------------------
\* cn_tree_destroy: once no job and no trim is running
\* ---------------------------------------------------------------------
\* cn_node_destroy_cb for every node: a reference is dropped on each kvset
RECURSIVE DestroyRefs(_, _, _)
DestroyRefs(refs, nodes, order) ==
    IF order = <<>> THEN refs
    ELSE DestroyRefs(kvset_put_refs(refs, KidsOf(nodes[Head(order)].kvsets)), nodes,
                     Tail(order))

Destroy ==
    /\ phase = "open"
    /\ trim.pc = "idle"
    /\ lookup.pc = "idle" /\ view.pc = "idle" /\ ct_lock = 0
    /\ kvrefs' = DestroyRefs(kvrefs, tn, ct_nodes)
    /\ \A t \in 1..Len(thr) : thr[t].pc = "exit"
    /\ asserts' = asserts \cup (IF ct_nodes # <<>> /\ ct_nodes[1] = ROOT
                                THEN {} ELSE {"destroy_root_first"})
    /\ route_map' = {}
    /\ ct_nodes' = <<>>
    /\ tn' = <<>>
    /\ jobs' = <<>>
    /\ thr' = <<>>
    /\ phase' = "destroyed"
    /\ UNCHANGED insert_call
    /\ UNCHANGED <<ct_samp, ingest_dgen, kid_next, nodeid_next, capped, ct_last_pt, trim,
                   ct_lock, readers>>

\* ---------------------------------------------------------------------
\* cn_tree_lookup (QUERY_GET)
\* ---------------------------------------------------------------------
NOT_FOUND == "NOT_FOUND"

FOUND_VAL == "FOUND_VAL"

FOUND_TMB == "FOUND_TMB"

\* kvset_lookup (consumed interface): what the kvset holds for the key;
\* what is the kind of entry the key has in the kvsets that hold it
kvset_lookup(kv, key, what) ==
    IF key \notin kv.keys THEN NOT_FOUND
    ELSE IF what = "tomb" THEN FOUND_TMB ELSE FOUND_VAL

\* list_for_each_entry over the kvset list from entry i on: n counts the
\* kvsets searched (pc_nkvset), the call with ordinal errat fails; val names
\* the kvset the value or tombstone came from
RECURSIVE ScanFrom(_, _, _, _, _, _)
ScanFrom(list, i, key, what, errat, n) ==
    IF i > Len(list) THEN [res |-> NOT_FOUND, err |-> NOERR, val |-> 0, nkvset |-> n]
    ELSE IF n + 1 = errat THEN [res |-> NOT_FOUND, err |-> EIO, val |-> 0, nkvset |-> n + 1]
    ELSE IF kvset_lookup(list[i], key, what) # NOT_FOUND
    THEN [res |-> kvset_lookup(list[i], key, what), err |-> NOERR, val |-> list[i].kid,
          nkvset |-> n + 1]
    ELSE ScanFrom(list, i + 1, key, what, errat, n + 1)

\* a variant that searches the list from the tail to the head
kvset_list_scan_reverse(list, key, what, errat, n) ==
    ScanFrom([i \in 1..Len(list) |-> list[Len(list) + 1 - i]], 1, key, what, errat, n)

\* the search of one node, newest kvset first
kvset_list_scan(list, key, what, errat, n) == ScanFrom(list, 1, key, what, errat, n)

\* cn_tree_node_lookup
cn_tree_node_lookup(map, key) == route_map_lookup(map, key)

\* the lookup returns: res, err and the value stay with the caller
LookupDone(l, r, seen) ==
    [pc |-> "done", key |-> l.key, what |-> l.what, errat |-> l.errat, res |-> r.res,
     err |-> r.err, val |-> r.val, nkvset |-> r.nkvset, seen |-> seen]

\* cn_tree_lookup from rmlock_rlock to the end of the search of the root:
\* it returns on a hit or an error, and when no leaf is resolved
LookupStart ==
    /\ phase = "open"
    /\ lookup.pc = "idle"
    /\ \E key \in Keys, what \in {"val", "tomb"}, errat \in 0..MaxErrAt :
        LET l    == [key |-> key, what |-> what, errat |-> errat]
            r    == kvset_list_scan(tn[ROOT].kvsets, key, what, errat, 0)
            node == cn_tree_node_lookup(route_map, key)
        IN /\ what = "tomb" => errat = 0
           /\ IF r.err # NOERR \/ r.res # NOT_FOUND \/ node = NULL
              THEN /\ lookup' = LookupDone(l, r, <<ROOT>>)
                   /\ ct_lock' = rmlock_runlock(rmlock_rlock(ct_lock))
              ELSE /\ lookup' = [pc |-> "leaf", key |-> key, what |-> what,
                                 errat |-> errat, node |-> node, nkvset |-> r.nkvset]
                   /\ ct_lock' = rmlock_rlock(ct_lock)
    /\ UNCHANGED insert_call
    /\ UNCHANGED <<tn, ct_nodes, ct_samp, route_map, jobs, thr, ingest_dgen, kid_next,
                   nodeid_next, capped, ct_last_pt, trim, phase, asserts, kvrefs, view>>

\* the search of the leaf, then rmlock_runlock
LookupLeaf ==
    /\ lookup.pc = "leaf"
    /\ LET list == IF lookup.node \in DOMAIN tn THEN tn[lookup.node].kvsets ELSE <<>>
           r    == kvset_list_scan(list, lookup.key, lookup.what, lookup.errat,
                                   lookup.nkvset)
       IN lookup' = LookupDone(lookup, r, <<ROOT, lookup.node>>)
    /\ ct_lock' = rmlock_runlock(ct_lock)
    /\ UNCHANGED insert_call
    /\ UNCHANGED <<tn, ct_nodes, ct_samp, route_map, jobs, thr, ingest_dgen, kid_next,
                   nodeid_next, capped, ct_last_pt, trim, phase, asserts, kvrefs, view>>

\* the caller is done with the result
LookupReturn ==
    /\ lookup.pc = "done"
    /\ lookup' = LookupIdle
    /\ UNCHANGED insert_call
    /\ UNCHANGED <<tn, ct_nodes, ct_samp, route_map, jobs, thr, ingest_dgen, kid_next,
                   nodeid_next, capped, ct_last_pt, trim, phase, asserts, ct_lock, kvrefs,
                   view>>

\* ---------------------------------------------------------------------
\* cn_tree_view_create and cn_tree_view_destroy
\* ---------------------------------------------------------------------
\* room of a table that never runs out of memory
NoLimit == -1

\* table_append: the room left after an entry was added
table_append(room) == IF room = NoLimit THEN NoLimit ELSE room - 1

\* the loop over tn_kvset_list: an entry and a reference for each kvset
\* until table_append fails
RECURSIVE ViewKvsets(_, _, _, _, _, _)
ViewKvsets(list, i, p, ents, room, refs) ==
    IF i > Len(list) THEN [ents |-> ents, room |-> room, refs |-> refs, err |-> NOERR]
    ELSE IF room = 0 THEN [ents |-> ents, room |-> room, refs |-> refs, err |-> ENOMEM]
    ELSE ViewKvsets(list, i + 1, p,
                    Append(ents, [kvset |-> list[i].kid, node |-> p]),
                    table_append(room),
                    kvset_get_ref(refs, list[i].kid))

\* the body of cn_tree_foreach_node for node p: the entry of the node, then
\* those of its kvsets
ViewNodeEntries(n, p, ents, room, refs) ==
    IF room = 0 THEN [ents |-> ents, room |-> room, refs |-> refs, err |-> ENOMEM]
    ELSE ViewKvsets(n.kvsets, 1, p, Append(ents, [kvset |-> NULL, node |-> p]),
                    table_append(room), refs)

\* table_apply(view, kvset_view_free): a put for each entry with a kvset
RECURSIVE cn_tree_view_destroy(_, _)
cn_tree_view_destroy(refs, ents) ==
    IF ents = <<>> THEN refs
    ELSE cn_tree_view_destroy(IF Head(ents).kvset # NULL
                              THEN kvset_put_ref(refs, Head(ents).kvset)
                              ELSE refs,
                              Tail(ents))

\* list_next_entry on ct_nodes; NULL at the end of the list
NextNode(order, p) ==
    LET at == {i \in 1..Len(order) : order[i] = p}
    IN IF at = {} \/ SetMax(at) = Len(order) THEN NULL ELSE order[SetMax(at) + 1]

\* cn_tree_view_create up to the first node: table_create, rmlock_rlock
ViewStart ==
    /\ phase = "open"
    /\ view.pc = "idle"
    /\ \E room \in {NoLimit} \cup 0..MaxViewRoom :
          view' = [pc |-> "walk", ents |-> <<>>, node |-> Head(ct_nodes), nodecnt |-> 0,
                   room |-> room]
    /\ ct_lock' = rmlock_rlock(ct_lock)
    /\ UNCHANGED insert_call
    /\ UNCHANGED <<tn, ct_nodes, ct_samp, route_map, jobs, thr, ingest_dgen, kid_next,
                   nodeid_next, capped, ct_last_pt, trim, phase, asserts, kvrefs, lookup>>

\* one node of the walk, under the read lock; the lock is left at an
\* error and at the end of the list, and yielded after every 16th node
\* starting with the first
ViewNode ==
    /\ view.pc = "walk"
    /\ LET p    == view.node
           r    == ViewNodeEntries(tn[p], p, view.ents, view.room, kvrefs)
           next == NextNode(ct_nodes, p)
           v    == [view EXCEPT !.ents = r.ents, !.room = r.room,
                                !.nodecnt = (@ + 1) % 16]
       IN /\ kvrefs' = r.refs
          /\ IF r.err # NOERR
             THEN /\ view' = [v EXCEPT !.pc = "failed"]
                  /\ ct_lock' = rmlock_runlock(ct_lock)
             ELSE IF view.nodecnt % 16 = 0
             THEN /\ view' = [v EXCEPT !.pc = "yield"]
                  /\ ct_lock' = rmlock_runlock(ct_lock)
             ELSE IF next = NULL
             THEN /\ view' = [v EXCEPT !.pc = "live"]
                  /\ ct_lock' = rmlock_runlock(ct_lock)
             ELSE /\ view' = [v EXCEPT !.node = next]
                  /\ ct_lock' = ct_lock
    /\ UNCHANGED insert_call
    /\ UNCHANGED <<tn, ct_nodes, ct_samp, route_map, jobs, thr, ingest_dgen, kid_next,
                   nodeid_next, capped, ct_last_pt, trim, phase, asserts, lookup>>

\* the return from rmlock_yield: the lock is taken again and the loop
\* moves to the next node of the list as it is now
ViewResume ==
    /\ view.pc = "yield"
    /\ LET next == NextNode(ct_nodes, view.node)
       IN IF next = NULL
          THEN /\ view' = [view EXCEPT !.pc = "live"]
               /\ ct_lock' = rmlock_runlock(rmlock_rlock(ct_lock))
          ELSE /\ view' = [view EXCEPT !.pc = "walk", !.node = next]
               /\ ct_lock' = rmlock_rlock(ct_lock)
    /\ UNCHANGED insert_call
    /\ UNCHANGED <<tn, ct_nodes, ct_samp, route_map, jobs, thr, ingest_dgen, kid_next,
                   nodeid_next, capped, ct_last_pt, trim, phase, asserts, kvrefs, lookup>>

\* the error path of cn_tree_view_create: the partial view is destroyed
\* and no view is returned
ViewAbort ==
    /\ view.pc = "failed"
    /\ kvrefs' = cn_tree_view_destroy(kvrefs, view.ents)
    /\ view' = ViewIdle
    /\ UNCHANGED insert_call
    /\ UNCHANGED <<tn, ct_nodes, ct_samp, route_map, jobs, thr, ingest_dgen, kid_next,
                   nodeid_next, capped, ct_last_pt, trim, phase, asserts, ct_lock, lookup>>

\* cn_tree_view_destroy by the owner of a view
ViewDestroy ==
    /\ view.pc = "live"
    /\ kvrefs' = cn_tree_view_destroy(kvrefs, view.ents)
    /\ view' = ViewIdle
    /\ UNCHANGED insert_call
    /\ UNCHANGED <<tn, ct_nodes, ct_samp, route_map, jobs, thr, ingest_dgen, kid_next,
                   nodeid_next, capped, ct_last_pt, trim, phase, asserts, ct_lock, lookup>>

Next == Ingest \/ SubmitSpill \/ SubmitCompact \/ SubmitSplit \/ Compact \/ Pick
          \/ Commit \/ Release \/ TrimScan \/ TrimApply \/ Destroy

Spec == Init /\ [][Next]_vars


\* the tree right after cn_tree_create: the root and no leaf
InitRootOnly ==
    /\ tn = (ROOT :> cn_node_alloc(0))
    /\ ct_nodes = <<ROOT>>
    /\ ct_samp = ZeroSamp
    /\ route_map = {}
    /\ jobs = <<>>
    /\ thr = <<>>
    /\ ingest_dgen = 0
    /\ kid_next = 0
    /\ nodeid_next = 0
    /\ capped \in BOOLEAN
    /\ ct_last_pt = NoPtomb
    /\ trim = TrimIdle
    /\ phase = "open"
    /\ asserts = {}
    /\ ct_lock = 0
    /\ kvrefs = <<>>
    /\ lookup = LookupIdle
    /\ view = ViewIdle
    /\ insert_call = NoCall

\* point gets running next to ingests and one compaction job at a time
NextLookup ==
    \/ Ingest
    \/ (Len(jobs) < MaxReaderJobs /\ route_map # {} /\ SubmitSpill)
    \/ (Len(jobs) < MaxReaderJobs /\ SubmitCompact)
    \/ (Len(jobs) < MaxReaderJobs /\ SubmitSplit)
    \/ Compact \/ Pick \/ Commit \/ Release
    \/ LookupStart \/ LookupLeaf \/ LookupReturn

InitLookup == Init \/ InitRootOnly

SpecLookup == InitLookup /\ [][NextLookup]_vars

\* ---------------------------------------------------------------------
\* The compaction pipeline alone, with workers that run to completion:
\* a worker thread of the scheduler is never stopped between the steps of
\* cn_comp, so each of its steps is taken once it stays enabled.
\* ---------------------------------------------------------------------
NextPipeline ==
    \/ Ingest
    \/ SubmitSpill
    \/ SubmitCompact
    \/ SubmitSplit
    \/ Compact \/ Pick \/ Commit \/ Release

\* cn_comp_commit can run: a worker is at the commit and no reader holds
\* the tree lock that the update takes
CommitReady ==
    /\ phase = "open"
    /\ ct_lock = 0
    /\ \E t \in 1..Len(thr) : thr[t].pc = "commit"

\* weak fairness of each step of a worker; for the commit it is written
\* with the condition that enables the step
WorkersRun ==
    /\ WF_vars(Compact)
    /\ WF_vars(Pick)
    /\ WF_vars(Release)
    /\ ([]<>(~CommitReady) \/ []<><<Commit>>_vars)

\* the trees the pipeline is run on: not capped
InitPipeline ==
    /\ Init
    /\ ~capped

SpecPipeline == InitPipeline /\ [][NextPipeline]_vars /\ WorkersRun

\* views next to ingests and one spill or k/kv-compaction
NextView ==
    \/ Ingest
    \/ (Len(jobs) < MaxReaderJobs /\ SubmitSpill)
    \/ (Len(jobs) < MaxReaderJobs /\ SubmitCompact)
    \/ Compact \/ Pick \/ Commit \/ Release
    \/ ViewStart \/ ViewNode \/ ViewResume \/ ViewAbort \/ ViewDestroy

SpecView == Init /\ [][NextView]_vars

\* one job at a time whose commit may fail at every place of the journal
NextCommit ==
    \/ Ingest
    \/ (Len(jobs) < MaxReaderJobs /\ SubmitSpill)
    \/ (Len(jobs) < MaxReaderJobs /\ SubmitCompact)
    \/ (Len(jobs) < MaxReaderJobs /\ SubmitSplit)
    \/ Compact \/ Pick \/ CommitJournal \/ Release

SpecCommit == Init /\ [][NextCommit]_vars

\* the pipeline over the kvsets ingested before the first job, with the
\* scheduler's cancellations, canceled builds and failed health checks
NextCancel ==
    \/ (jobs = <<>> /\ Ingest)
    \/ SubmitSpill
    \/ SubmitCompact
    \/ SubmitSplit
    \/ cn_comp_cancel_cb
    \/ CompactCancel
    \/ Pick
    \/ Commit
    \/ Release

SpecCancel == InitPipeline /\ [][NextCancel]_vars

\* concurrent root spills with the two statements of cn_comp that follow
\* the build, setting cw_rspill_done and reading cw_node, as two steps
NextRace ==
    \/ (jobs = <<>> /\ Ingest)
    \/ SubmitSpill
    \/ CompactSetDone
    \/ ReadNode
    \/ Pick
    \/ Commit
    \/ Release

SpecRace == InitPipeline /\ [][NextRace]_vars

\* a tree opened with MaxInitKvsets kvsets in its leaf, each with the compc
\* its journal record gives it
InitCompc ==
    \E cs \in [1..MaxInitKvsets -> 0..MaxCompc], ks \in [1..MaxInitKvsets -> KeySets] :
        LET kvs   == [i \in 1..MaxInitKvsets |->
                        Kvset(MaxInitKvsets + 1 - i, MaxInitKvsets + 1 - i, cs[i], ks[i])]
            leaf  == [cn_node_alloc(1) EXCEPT !.route_node = InitEdge, !.kvsets = kvs]
            built == (ROOT :> cn_node_alloc(0)) @@ (2 :> leaf)
            r     == cn_tree_samp_init(built, <<ROOT, 2>>)
        IN /\ tn = r.nodes
           /\ ct_nodes = <<ROOT, 2>>
           /\ ct_samp = r.total
           /\ route_map = {RouteNode(InitEdge, 2)}
           /\ jobs = <<>>
           /\ thr = <<>>
           /\ ingest_dgen = MaxInitKvsets
           /\ kid_next = MaxInitKvsets
           /\ nodeid_next = 1
           /\ capped = FALSE
           /\ ct_last_pt = NoPtomb
           /\ trim = TrimIdle
           /\ phase = "open"
           /\ asserts = {}
           /\ ct_lock = 0
           /\ kvrefs = [k \in 1..MaxInitKvsets |-> 1]
           /\ lookup = LookupIdle
           /\ view = ViewIdle
           /\ insert_call = NoCall

\* k-compactions and kv-compactions of that leaf, one after the other
NextCompc ==
    \/ (\A j \in 1..Len(jobs) : jobs[j].stage = "released") /\ SubmitCompact
    \/ Compact
    \/ Commit
    \/ Release

SpecCompc == InitCompc /\ [][NextCompc]_vars

\* a capped tree: ingests and the trimmer, its runs recorded
InitTrim == Init /\ capped

NextTrim == Ingest \/ TrimScanEvict \/ TrimApply

SpecTrim == InitTrim /\ [][NextTrim]_vars

\* the tree under construction: the root and one leaf, no kvset yet
InitInsert ==
    /\ tn = (ROOT :> cn_node_alloc(0)) @@
            (2 :> [cn_node_alloc(1) EXCEPT !.route_node = InitEdge])
    /\ ct_nodes = <<ROOT, 2>>
    /\ ct_samp = ZeroSamp
    /\ route_map = {RouteNode(InitEdge, 2)}
    /\ jobs = <<>>
    /\ thr = <<>>
    /\ ingest_dgen = 0
    /\ kid_next = 0
    /\ nodeid_next = 1
    /\ capped = FALSE
    /\ ct_last_pt = NoPtomb
    /\ trim = TrimIdle
    /\ phase = "create"
    /\ asserts = {}
    /\ ct_lock = 0
    /\ kvrefs = <<>>
    /\ lookup = LookupIdle
    /\ view = ViewIdle
    /\ insert_call = NoCall

\* cn_tree_insert_kvset called while the tree is built, with any node id
\* and any dgen; a failed assert() either ends the process or, where
\* assert() is compiled out, does nothing
InsertKvset ==
    /\ phase = "create" /\ kid_next < MaxInserts
    /\ \E nodeid \in 0..MaxNodeid, dgen \in 1..MaxDgen, keys \in KeySets, abort \in BOOLEAN :
        LET kv == Kvset(kid_next + 1, dgen, 0, keys)
            r  == cn_tree_insert_kvset(tn, ct_nodes, kv, nodeid)
        IN /\ abort => r.asserts # {}
           /\ asserts' = asserts \cup r.asserts
           /\ kid_next' = kid_next + 1
           /\ kvrefs' = kvset_open_ref(kvrefs, kv.kid)
           /\ IF abort
              THEN /\ phase' = "aborted"
                   /\ insert_call' = [nodeid |-> nodeid, dgen |-> dgen, err |-> NULL]
                   /\ UNCHANGED tn
              ELSE /\ tn' = r.nodes
                   /\ insert_call' = [nodeid |-> nodeid, dgen |-> dgen, err |-> r.err]
                   /\ UNCHANGED phase
    /\ UNCHANGED <<ct_nodes, ct_samp, route_map, jobs, thr, ingest_dgen, nodeid_next,
                   capped, ct_last_pt, trim, ct_lock, lookup, view>>

NextInsert == InsertKvset

SpecInsert == InitInsert /\ [][NextInsert]_vars


\* ---------------------------------------------------------------------
\* Properties
\* ---------------------------------------------------------------------
\* a job is in flight from its submission until cn_comp_release
InFlight(j) == jobs[j].stage # "released"

\* the tree update of the job was applied
Applied(j) == jobs[j].stage \in {"committed", "released"} /\ jobs[j].err = NOERR

Kids(list) == {list[i].kid : i \in 1..Len(list)}

OutKids(w) == {w.outs[i].kid : i \in 1..Len(w.outs)} \ {0}

\* C1: in every reachable state the dgens of every node's kvset list
\* strictly decrease from head to tail.
DgenStrictlyDecreasing ==
    \A p \in DOMAIN tn :
        \A i \in 1..(Len(tn[p].kvsets) - 1) :
            tn[p].kvsets[i].dgen > tn[p].kvsets[i + 1].dgen

\* a leaf holds two kvsets, the newer put there by a spill, and the root
\* still holds a kvset ingested after that spill was set up
DgenWitness ==
    /\ phase = "open"
    /\ \E j \in 1..Len(jobs) :
          /\ jobs[j].action = "SPILL" /\ Applied(j)
          /\ \E p \in Leaves :
                /\ Len(tn[p].kvsets) >= 2
                /\ tn[p].kvsets[1].kid \in OutKids(jobs[j])
    /\ tn[ROOT].kvsets # <<>>

\* C2: concurrent root spills take effect in the order they were queued:
\* when a later spill B has been applied the earlier spill A has been too,
\* and in a leaf holding outputs of both B's output is nearer the head and
\* has the larger dgen.
SpillFifoOrder ==
    \A a \in 1..Len(jobs), b \in 1..Len(jobs) :
        (a < b /\ jobs[a].action = "SPILL" /\ jobs[b].action = "SPILL"
               /\ jobs[a].node = jobs[b].node /\ Applied(b))
        => /\ Applied(a)
           /\ \A p \in Leaves :
                 \A x \in 1..Len(tn[p].kvsets), y \in 1..Len(tn[p].kvsets) :
                    (tn[p].kvsets[x].kid \in OutKids(jobs[a])
                        /\ tn[p].kvsets[y].kid \in OutKids(jobs[b]))
                    => y < x /\ tn[p].kvsets[y].dgen > tn[p].kvsets[x].dgen

\* two spills were applied and a leaf holds an output of each; the later
\* spill finished its compact step first (its output has the smaller id)
SpillFifoWitness ==
    \E a \in 1..Len(jobs), b \in 1..Len(jobs) :
        /\ a < b /\ jobs[a].action = "SPILL" /\ jobs[b].action = "SPILL"
        /\ Applied(a) /\ Applied(b)
        /\ \E p \in Leaves : \E x \in Kids(tn[p].kvsets), y \in Kids(tn[p].kvsets) :
              x \in OutKids(jobs[a]) /\ y \in OutKids(jobs[b]) /\ y < x

\* C3: the token of a node is 0 or 1, at most one in-flight job on a node
\* holds it, it is 1 while such a job is in flight, and the assertion of
\* cn_node_comp_token_put never fails.
TokenExclusive ==
    /\ \A p \in DOMAIN tn :
          /\ tn[p].compacting \in {0, 1}
          /\ Cardinality({j \in 1..Len(jobs) :
                 InFlight(j) /\ jobs[j].have_token /\ jobs[j].node = p}) <= 1
          /\ (\E j \in 1..Len(jobs) : InFlight(j) /\ jobs[j].have_token /\ jobs[j].node = p)
                => tn[p].compacting = 1
    /\ "token_put" \notin asserts

\* a node's token was put back by one job and is held by a second one
TokenWitness ==
    \E a \in 1..Len(jobs), b \in 1..Len(jobs) :
        /\ jobs[a].node = jobs[b].node
        /\ jobs[a].have_token /\ ~InFlight(a)
        /\ jobs[b].have_token /\ InFlight(b)
        /\ tn[jobs[b].node].compacting = 1

\* the kvset ids of the input window of a job that are on its node's list
Window(j) == Kids(InputsOf(tn[jobs[j].node].kvsets, jobs[j]))

\* the in-flight jobs whose input window holds kvset kid of node p
Reserving(p, kid) ==
    {j \in 1..Len(jobs) : InFlight(j) /\ jobs[j].node = p /\ kid \in Window(j)}

\* C4: a kvset with a non-zero work-id is in the input window of exactly
\* one in-flight job (and carries that job's work-id), in-flight windows
\* do not overlap, and a kvset of the tree in no in-flight window has
\* work-id 0.
WorkidWindow ==
    \A p \in DOMAIN tn : \A i \in 1..Len(tn[p].kvsets) :
        LET kv == tn[p].kvsets[i]
        IN /\ Cardinality(Reserving(p, kv.kid)) <= 1
           /\ kv.workid # 0 => /\ Cardinality(Reserving(p, kv.kid)) = 1
                               /\ \A j \in Reserving(p, kv.kid) : kv.workid = jobs[j].dgen_lo
           /\ Reserving(p, kv.kid) = {} => kv.workid = 0

\* a job failed and was released, its inputs are back in the tree
\* unreserved; another job is in flight on the same node
WorkidWitness ==
    \E a \in 1..Len(jobs), b \in 1..Len(jobs) :
        /\ ~InFlight(a) /\ jobs[a].err # NOERR
        /\ IndexOf(tn[jobs[a].node].kvsets, jobs[a].mark) # 0
        /\ InFlight(b) /\ jobs[b].node = jobs[a].node /\ Window(b) # {}

\* the sum of the samp records of the nodes on the tree's node list
RECURSIVE SampSum(_)
SampSum(order) ==
    IF order = <<>> THEN ZeroSamp ELSE SampAdd(tn[Head(order)].samp, SampSum(Tail(order)))

\* C5: each of the five counters of ct_samp is the sum of that counter over
\* the samp records of the nodes on the tree's node list.
SampIsSum == phase = "open" => ct_samp = SampSum(ct_nodes)

\* after a split published a left node, with data in the root and in leaves
SampWitness ==
    /\ phase = "open"
    /\ Len(ct_nodes) = 3
    /\ ct_samp.l_alen > 0
    /\ ct_samp.r_alen > 0
    /\ ct_samp.l_good < ct_samp.l_alen

\* the root is first on the node list and has node id 0
RootFirst ==
    phase = "open" =>
        /\ ct_nodes # <<>>
        /\ ct_nodes[1] = ROOT
        /\ tn[ROOT].isroot
        /\ tn[ROOT].nodeid = 0
        /\ \A i \in 2..Len(ct_nodes) : ~tn[ct_nodes[i]].isroot /\ tn[ct_nodes[i]].nodeid # 0

\* until destroy a step leaves the node list alone or appends one node
NodesAppendOnly ==
    phase' = "open" =>
        \/ ct_nodes' = ct_nodes
        \/ \E p \in DOMAIN tn' : p \notin Range(ct_nodes) /\ ct_nodes' = Append(ct_nodes, p)

\* C6: from cn_tree_create until destroy the first entry of the node list
\* is the root and the root's node id is 0 (the assertion of
\* cn_tree_destroy holds); a split only appends a node at the tail of the
\* list, no step removes or reorders nodes.
RootFirstAppendOnly ==
    /\ [](RootFirst /\ "destroy_root_first" \notin asserts)
    /\ [][NodesAppendOnly]_vars

\* a split has appended a left node
RootFirstWitness ==
    /\ phase = "open"
    /\ Len(ct_nodes) = 3
    /\ \E j \in 1..Len(jobs) : jobs[j].action = "SPLIT" /\ Applied(j)

\* C7: every non-root node on the node list has exactly one route-map
\* entry that maps to it, the one its tn_route_node names.
OneRouteEntryPerLeaf ==
    phase = "open" =>
        \A p \in Leaves :
            /\ Cardinality({e \in route_map : e.tnode = p}) = 1
            /\ RouteNodeOf(p) \in route_map

\* a split published a left node; both leaves have their entry
OneRouteEntryWitness ==
    /\ phase = "open"
    /\ Cardinality(Leaves) = 2
    /\ Cardinality(route_map) = 2
    /\ \E j \in 1..Len(jobs) :
          jobs[j].action = "SPLIT" /\ Applied(j)
          /\ jobs[j].nodeidv[1] # CN_TREE_INVALID_NODEID

\* the step in which cn_comp_commit of job j updates the tree with success
CommitStep(j) ==
    /\ j \in 1..Len(jobs)
    /\ j \in 1..Len(jobs')
    /\ jobs[j].stage # "committed"
    /\ jobs'[j].stage = "committed"
    /\ jobs'[j].err = NOERR

KidSeq(list) == [i \in 1..Len(list) |-> list[i].kid]

\* the post-condition of the k/kv-compact update of job j
KvcompactPost(j) ==
    LET w    == jobs[j]
        old  == tn[w.node].kvsets
        new  == tn'[w.node].kvsets
        ins  == InputsOf(old, w)
        out  == OutKids(w)
    IN /\ Len(ins) = w.kvset_cnt
       /\ ins[Len(ins)].kid = w.mark
       /\ \A i \in 1..Len(ins) : w.dgen_lo <= ins[i].dgen /\ ins[i].dgen <= w.dgen_hi
       /\ Kids(new) = (Kids(old) \ Kids(ins)) \cup out
       /\ SelectSeq(new, LAMBDA kv : kv.kid \notin out)
             = SelectSeq(old, LAMBDA kv : kv.kid \notin Kids(ins))
       /\ Cardinality(out) <= 1
       /\ Len(new) = Len(old) - w.kvset_cnt + Cardinality(out)
       /\ \A k \in out :
             /\ IndexOf(new, k) = IndexOf(old, ins[1].kid)
             /\ new[IndexOf(new, k)].dgen = w.dgen_hi
             /\ new[IndexOf(new, k)].dgen >= ins[1].dgen
       /\ \A p \in DOMAIN tn : p # w.node => tn'[p].kvsets = tn[p].kvsets

\* C8: a successful k-compact or kv-compact leaves the node's list equal to
\* the list before with exactly the kvset_cnt inputs ending at mark removed
\* and, when an output was produced, one new kvset of dgen hi in their
\* position; the other kvsets keep their presence and order.
KvcompactReplacesInputs ==
    [][\A j \in 1..Len(jobs) :
          (CommitStep(j) /\ jobs[j].action \in {"COMPACT_K", "COMPACT_KV"})
          => KvcompactPost(j)]_vars

\* the output of a k/kv-compact sits between a newer and an older kvset
KvcompactWitness ==
    \E j \in 1..Len(jobs) :
        /\ jobs[j].action \in {"COMPACT_K", "COMPACT_KV"}
        /\ Applied(j)
        /\ \E k \in OutKids(jobs[j]) :
              LET list == tn[jobs[j].node].kvsets
              IN 1 < IndexOf(list, k) /\ IndexOf(list, k) < Len(list)

\* the nodes a step has put on the node list
NewNodes == Range(ct_nodes') \ Range(ct_nodes)

\* the placement of the outputs of the split of job j and the keys of the
\* two halves
SplitPlacement(j) ==
    LET w     == jobs[j]
        K     == w.split_key
        cnt   == w.kvset_cnt
        right == w.node
    IN /\ OutKidSeq(w, 1, cnt) # <<>> =>
             \E l \in NewNodes : KidSeq(tn'[l].kvsets) = OutKidSeq(w, 1, cnt)
       /\ KidSeq(tn'[right].kvsets) = OutKidSeq(w, cnt + 1, 2 * cnt)
       /\ \A l \in NewNodes : \A k \in KeysOf(tn'[l].kvsets) : k <= K
       /\ \A k \in KeysOf(tn'[right].kvsets) : k > K

\* the routing after the split of job j, when it made a left node: a key
\* that resolved to the source node resolves to the left node when it is
\* <= the split key and to the right node otherwise
SplitRouting(j) ==
    LET w     == jobs[j]
        K     == w.split_key
        right == w.node
    IN \A l \in NewNodes : \A k \in Keys :
          route_map_lookup(route_map, k) = right
          => route_map_lookup(route_map', k) = (IF k <= K THEN l ELSE right)

\* C9: after a successful split with split key K the opened outputs
\* [0, kvset_cnt) are the kvsets of the new left node and the outputs
\* [kvset_cnt, outc) those of the right node, every key of the left node
\* is <= K and every key of the right node > K, and the route map resolves
\* the keys of the source node <= K to the left node and those > K to the
\* right node.
SplitPostCondition ==
    [][\A j \in 1..Len(jobs) :
          (CommitStep(j) /\ jobs[j].action = "SPLIT")
          => SplitPlacement(j) /\ SplitRouting(j)]_vars

\* the right node of the split of job j was the last route node with an
\* edge key <= the split key
SplitOverflows(j) ==
    /\ route_node_islast(route_map, RouteNodeOf(jobs[j].node))
    /\ route_node_keycmp(RouteNodeOf(jobs[j].node), jobs[j].split_key) <= 0

\* the right half of the split of job j has a kvset
SplitHasRight(j) == OutKidSeq(jobs[j], jobs[j].kvset_cnt + 1, 2 * jobs[j].kvset_cnt) # <<>>

\* the edge key of the right node after the step is the max key the node
\* had before it, and is above the split key
SplitRekeyed(j) ==
    LET right == jobs[j].node
        M     == cn_tree_node_get_max_key(tn[right])
    IN /\ tn'[right].route_node = M
       /\ M > jobs[j].split_key
       /\ {e \in route_map' : e.tnode = right} = {RouteNode(M, right)}

LookupReturns == lookup.pc # "done" /\ lookup'.pc = "done"

\* the positions of the list whose search ends the lookup of l: the kvset
\* holds the key, or the call fails; base kvsets were searched before
LookupHits(list, l, base) ==
    {i \in 1..Len(list) : l.key \in list[i].keys \/ base + i = l.errat}

\* the result l is the one that entry i of the list gives, reached after
\* base + i calls
LookupResultOf(l, list, i, base) ==
    /\ l.nkvset = base + i
    /\ IF base + i = l.errat
       THEN l.err = EIO
       ELSE /\ l.err = NOERR
            /\ l.val = list[i].kid
            /\ l.res = (IF l.what = "tomb" THEN FOUND_TMB ELSE FOUND_VAL)

LookupMiss(l) == l.res = NOT_FOUND /\ l.err = NOERR /\ l.val = 0

\* what the point get that returns in this step must return
LookupPost ==
    LET l    == lookup'
        R    == tn[ROOT].kvsets
        leaf == route_map_lookup(route_map, l.key)
        L    == IF leaf = NULL THEN <<>> ELSE tn[leaf].kvsets
        hR   == LookupHits(R, l, 0)
        hL   == LookupHits(L, l, Len(R))
    IN /\ Len(l.seen) <= 2
       /\ l.seen[1] = ROOT
       /\ IF hR # {}
          THEN l.seen = <<ROOT>> /\ LookupResultOf(l, R, SetMin(hR), 0)
          ELSE IF leaf = NULL
          THEN l.seen = <<ROOT>> /\ LookupMiss(l) /\ l.nkvset = Len(R)
          ELSE /\ l.seen = <<ROOT, leaf>>
               /\ IF hL # {}
                  THEN LookupResultOf(l, L, SetMin(hL), Len(R))
                  ELSE LookupMiss(l) /\ l.nkvset = Len(R) + Len(L)

\* C11: a point get searches the root's list from the head and returns at
\* the first kvset that yields found, tombstone or error; only when the
\* whole root list yields not-found it searches, in the same way, the one
\* leaf the route map resolves the key to; it visits at most two nodes and
\* returns not-found when no leaf is resolved or the leaf yields not-found.
LookupNewestFirst == [][LookupReturns => LookupPost]_vars

\* a point get passed a root that holds a kvset without the key and took a
\* tombstone from the newer of two kvsets of the leaf that hold the key
LookupWitness ==
    /\ lookup.pc = "done"
    /\ lookup.res = FOUND_TMB
    /\ Len(lookup.seen) = 2
    /\ lookup.nkvset = 2
    /\ lookup.seen[2] \in DOMAIN tn
    /\ LET L == tn[lookup.seen[2]].kvsets
       IN /\ Len(L) >= 2
          /\ L[1].kid = lookup.val
          /\ lookup.key \in L[2].keys

\* the kvset lists of the nodes, the node list and the route map are the
\* same after the step
TreeShapeUnchanged ==
    /\ DOMAIN tn' = DOMAIN tn
    /\ \A p \in DOMAIN tn : KidSeq(tn'[p].kvsets) = KidSeq(tn[p].kvsets)
    /\ ct_nodes' = ct_nodes
    /\ route_map' = route_map

\* the point get that returns in this step did not miss a key that the
\* root, or the leaf the route map resolves the key to, holds
LookupNoFalseMiss ==
    LET l    == lookup'
        leaf == route_map_lookup(route_map', l.key)
    IN (l.res = NOT_FOUND /\ l.err = NOERR)
       => /\ l.key \notin KeysOf(tn'[ROOT].kvsets)
          /\ leaf # NULL => l.key \notin KeysOf(tn'[leaf].kvsets)

IsRspill(j) == jobs[j].rspill_conc

\* get_completed_spill hands out job j in this step
PickStep(j) ==
    /\ j \in 1..Len(jobs) /\ j \in 1..Len(jobs')
    /\ jobs[j].commit_in_progress = 0
    /\ jobs'[j].commit_in_progress = 1

\* cn_comp_commit of job j runs in this step
CommitRuns(j) ==
    /\ j \in 1..Len(jobs) /\ j \in 1..Len(jobs')
    /\ jobs[j].stage # "committed"
    /\ jobs'[j].stage = "committed"

\* C13: a concurrent root spill that finished with an error has left the
\* wedged flag of its node set; the flag is never cleared; a spill picked by
\* get_completed_spill on a wedged node has an error from then on
\* (ESHUTDOWN and canceled when it had none of its own) and its commit
\* neither installs its outputs nor takes its inputs off the tree.
WedgedSpillsAbort ==
    /\ [](\A j \in 1..Len(jobs) :
            (IsRspill(j) /\ jobs[j].stage = "released" /\ jobs[j].err # NOERR)
            => tn[jobs[j].node].wedged)
    /\ [][/\ \A p \in DOMAIN tn : (tn[p].wedged /\ p \in DOMAIN tn') => tn'[p].wedged
          /\ \A j \in 1..Len(jobs) :
                /\ (PickStep(j) /\ tn[jobs[j].node].wedged)
                   => /\ jobs'[j].err # NOERR
                      /\ jobs[j].err = NOERR
                            => jobs'[j].err = ESHUTDOWN /\ jobs'[j].canceled
                      /\ jobs[j].err # NOERR => jobs'[j].err = jobs[j].err
                /\ (CommitRuns(j) /\ IsRspill(j) /\ tn[jobs[j].node].wedged)
                   => /\ TreeShapeUnchanged
                      /\ jobs'[j].err = jobs[j].err
                      /\ jobs[j].err # NOERR]_vars

\* a spill failed on its own, the spill queued after it had built its
\* outputs without error and was shut down: its inputs are still in the
\* root, unreserved, and no leaf holds an output of it
WedgedWitness ==
    \E a \in 1..Len(jobs), b \in 1..Len(jobs) :
        /\ a < b /\ IsRspill(a) /\ IsRspill(b)
        /\ jobs[a].stage = "released" /\ jobs[a].err = EIO
        /\ jobs[b].stage = "released" /\ jobs[b].err = ESHUTDOWN /\ jobs[b].canceled
        /\ OutKids(jobs[b]) # {}
        /\ tn[ROOT].wedged
        /\ IndexOf(tn[ROOT].kvsets, jobs[b].mark) # 0
        /\ \A i \in 1..Len(tn[ROOT].kvsets) : tn[ROOT].kvsets[i].workid = 0
        /\ \A p \in Leaves : Kids(tn[p].kvsets) \cap OutKids(jobs[b]) = {}

\* ---------------------------------------------------------------------
\* C14: the stages of a job and the draining of the rspills FIFO
\* ---------------------------------------------------------------------
\* the stage a job may move to from each stage: cn_comp_compact, then for a
\* root spill get_completed_spill, then cn_comp_commit, then cn_comp_cleanup
\* with cn_comp_release
StageAfter(w) ==
    CASE w.stage = "submitted"  -> {"compacted"}
      [] w.stage = "compacted"  -> IF w.rspill_conc THEN {"committing"} ELSE {"committed"}
      [] w.stage = "committing" -> {"committed"}
      [] w.stage = "committed"  -> {"released"}
      [] OTHER                  -> {}

StagesInOrder ==
    \A j \in 1..Len(jobs) :
        jobs'[j].stage # jobs[j].stage => jobs'[j].stage \in StageAfter(jobs[j])

ReleasedOnce ==
    \A j \in 1..Len(jobs) :
        /\ jobs[j].completions = (IF jobs[j].stage = "released" THEN 1 ELSE 0)
        /\ Cardinality({t \in 1..Len(thr) :
                            thr[t].pc \in {"commit", "release"} /\ thr[t].cur = j}) <= 1

WorkersDone == \A t \in 1..Len(thr) : thr[t].pc = "exit"

\* C14: every job passes compact, commit, cleanup and release in that order
\* and is released exactly once; when every worker runs to completion each
\* root spill that set rspill_done is finished by some worker, and no spill
\* is left on the rspills FIFO once the workers are done.
PipelineCompletes ==
    /\ [][StagesInOrder]_vars
    /\ [](ReleasedOnce /\ (WorkersDone => \A n \in DOMAIN tn : tn[n].rspills = <<>>))
    /\ \A j \in 1..MaxJobs :
          (j <= Len(jobs) /\ jobs[j].rspill_done = 1)
              ~> (j <= Len(jobs) /\ jobs[j].stage = "released")

\* two concurrent root spills were both released and the FIFO is drained
PipelineWitness ==
    /\ Len(jobs) = 2
    /\ \A j \in 1..2 : IsRspill(j) /\ jobs[j].stage = "released" /\ jobs[j].completions = 1
    /\ thr[1].pc = "exit" /\ thr[2].pc = "exit"
    /\ tn[ROOT].rspills = <<>>

\* ---------------------------------------------------------------------
\* C15: the journal transaction and the outputs of a failed commit
\* ---------------------------------------------------------------------
\* C15: a commit that fails after cndb_record_txstart naks the transaction
\* exactly once and drops a reference on every output kvset it had opened,
\* which frees them; a commit that fails before the transaction was
\* started, or that finds the job already failed, issues no nak.
CommitFailureNaks ==
    [][\A j \in 1..Len(jobs) :
          (CommitRuns(j) /\ jobs'[j].err # NOERR) =>
              IF jobs'[j].txn_nak
              THEN /\ jobs'[j].naks = 1
                   /\ jobs'[j].dropped = jobs'[j].opened
                   /\ \A i \in 1..Len(jobs'[j].opened) :
                         jobs'[j].opened[i] \notin DOMAIN kvrefs'
              ELSE /\ jobs'[j].naks = 0
                   /\ jobs'[j].opened = <<>>]_vars

\* a commit failed after it had opened some of its outputs but not all
CommitFailureWitness ==
    \E j \in 1..Len(jobs) :
        /\ jobs[j].stage = "committed" /\ jobs[j].err # NOERR
        /\ jobs[j].txn_nak /\ jobs[j].naks = 1
        /\ jobs[j].opened # <<>> /\ jobs[j].dropped = jobs[j].opened
        /\ Len(jobs[j].opened) < Valid(jobs[j].outs)

\* ---------------------------------------------------------------------
\* C16: the frame of cn_tree_ingest_update
\* ---------------------------------------------------------------------
\* cn_tree_ingest_update runs in this step: only it moves the ingest dgen
IngestStep == ingest_dgen' # ingest_dgen

IngestAssertNames == {"ingest_i_alen", "ingest_r_wlen", "ingest_l_alen", "ingest_l_good"}

\* C16: an ingest puts the new kvset at the head of the root's list and
\* bumps the root's cgen; the nodes of the tree, the route map and every
\* leaf stay as they were; the tree's l_alen and l_good are unchanged, its
\* i_alen and r_wlen do not decrease, and none of the four assertions of
\* the function fails.
IngestFrame ==
    [][IngestStep =>
          /\ tn'[ROOT].kvsets # <<>>
          /\ Head(tn'[ROOT].kvsets).kid = kid_next'
          /\ Head(tn'[ROOT].kvsets).dgen = ingest_dgen'
          /\ Tail(tn'[ROOT].kvsets) = tn[ROOT].kvsets
          /\ tn'[ROOT].cgen = tn[ROOT].cgen + 1
          /\ DOMAIN tn' = DOMAIN tn
          /\ \A n \in DOMAIN tn \ {ROOT} : tn'[n] = tn[n]
          /\ ct_nodes' = ct_nodes /\ route_map' = route_map
          /\ ct_samp'.l_alen = ct_samp.l_alen
          /\ ct_samp'.l_good = ct_samp.l_good
          /\ ct_samp'.i_alen >= ct_samp.i_alen
          /\ ct_samp'.r_wlen >= ct_samp.r_wlen
          /\ asserts' \cap IngestAssertNames = {}]_vars

\* an ingest went into a tree whose root and leaf both hold kvsets and that
\* has a job in flight
IngestWitness ==
    /\ ROOT \in DOMAIN tn
    /\ Len(tn[ROOT].kvsets) >= 2
    /\ Head(tn[ROOT].kvsets).dgen = ingest_dgen
    /\ \E n \in DOMAIN tn \ {ROOT} : tn[n].kvsets # <<>>
    /\ \E j \in 1..Len(jobs) : InFlight(j)
    /\ ct_samp.i_alen > 0 /\ ct_samp.l_alen > 0

\* ---------------------------------------------------------------------
\* C17: the references of a view
\* ---------------------------------------------------------------------
\* the reference count of a kvset; 0 once it is freed
RefCount(refs, kid) == IF kid \in DOMAIN refs THEN refs[kid] ELSE 0

\* the number of entries of a view that record the kvset
Recorded(ents, kid) == Cardinality({i \in 1..Len(ents) : ents[i].kvset = kid})

\* the kvsets held by a node of the tree
KidsInTree == UNION {Range(KidsOf(tn[n].kvsets)) : n \in DOMAIN tn}

CompactOnce(p) == cn_tree_samp_update_compact(ct_samp, tn[p])

CompactTwice(p) == cn_tree_samp_update_compact(CompactOnce(p).total, CompactOnce(p).node)

\* C18: on every node of every reachable tree a second run of
\* cn_tree_samp_update_compact leaves the node stats, the node samp and the
\* tree samp as the first run left them.
UpdateCompactIdempotent ==
    \A p \in DOMAIN tn :
        /\ CompactTwice(p).node.ns = CompactOnce(p).node.ns
        /\ CompactTwice(p).node.samp = CompactOnce(p).node.samp
        /\ CompactTwice(p).total = CompactOnce(p).total

\* a node with two kvsets whose samp is a part of the tree samp, and a
\* node with kvsets that the first run changes
UpdateCompactWitness ==
    /\ \E p \in DOMAIN tn :
          /\ Len(tn[p].kvsets) >= 2
          /\ CompactOnce(p).node.samp # ZeroSamp
          /\ ct_samp # CompactOnce(p).node.samp
    /\ \E q \in DOMAIN tn :
          /\ tn[q].kvsets # <<>>
          /\ CompactOnce(q).node # tn[q]

\* ---------------------------------------------------------------------
\* C19: the tree after cn_comp_update_spill
\* ---------------------------------------------------------------------
SpillAssertNames == {"spill_list_empty", "spill_dgen_lo"}

\* output x of job j is the new head of its destination node
SpillOutputAtHead(j, x) ==
    LET o == jobs[j].outs[x]
    IN /\ tn'[o.dest].kvsets # <<>>
       /\ Head(tn'[o.dest].kvsets).kid = o.kid
       /\ Head(tn'[o.dest].kvsets).dgen = jobs[j].dgen_hi
       /\ Tail(tn'[o.dest].kvsets) = tn[o.dest].kvsets
       /\ tn'[o.dest].cgen > tn[o.dest].cgen

\* C19: the commit of a spill that succeeds puts every output that has a
\* kvset at the head of its destination node, with the dgen_hi of the job
\* and a larger cgen of that node; the source loses exactly its kvset_cnt
\* oldest kvsets; the oldest kvset of the source has the dgen_lo of the job
\* when the removal starts, and neither assertion of the removal fails.
SpillPostCondition ==
    [][\A j \in 1..Len(jobs) :
          (CommitStep(j) /\ jobs[j].action = "SPILL" /\ jobs'[j].err = NOERR) =>
              LET src == tn[jobs[j].node].kvsets
                  cnt == jobs[j].kvset_cnt
              IN /\ \A x \in 1..Len(jobs[j].outs) :
                       jobs[j].outs[x].kid # 0 => SpillOutputAtHead(j, x)
                 /\ Len(src) >= cnt
                 /\ tn'[jobs[j].node].kvsets = SubSeq(src, 1, Len(src) - cnt)
                 /\ src[Len(src)].dgen = jobs[j].dgen_lo
                 /\ tn'[jobs[j].node].cgen > tn[jobs[j].node].cgen
                 /\ asserts' \cap SpillAssertNames = {}]_vars

\* a spill of one kvset committed into a leaf that held kvsets, while the
\* root keeps a newer kvset
SpillPostWitness ==
    \E j \in 1..Len(jobs) :
        /\ jobs[j].action = "SPILL" /\ jobs[j].stage = "committed" /\ jobs[j].err = NOERR
        /\ jobs[j].kvset_cnt = 1
        /\ tn[ROOT].kvsets # <<>>
        /\ \E x \in 1..Len(jobs[j].outs) :
              /\ jobs[j].outs[x].kid # 0
              /\ Len(tn[jobs[j].outs[x].dest].kvsets) >= 2
              /\ Head(tn[jobs[j].outs[x].dest].kvsets).kid = jobs[j].outs[x].kid

\* ---------------------------------------------------------------------
\* C20: cw_samp_pre and cw_samp_post
\* ---------------------------------------------------------------------
\* C20: on every tree update that succeeds cw_samp_pre is the tree samp
\* before the step and cw_samp_post the tree samp after it, so that their
\* difference is the change of the tree samp made by the update.
SampBracketsUpdate ==
    [][\A j \in 1..Len(jobs) :
          CommitStep(j) =>
              /\ jobs'[j].samp_pre = ct_samp
              /\ jobs'[j].samp_post = ct_samp'
              /\ SampSub(jobs'[j].samp_post, jobs'[j].samp_pre) =
                     SampSub(ct_samp', ct_samp)]_vars

\* the same for k/kv-compactions and spills only
SampBracketsCompactSpill ==
    [][\A j \in 1..Len(jobs) :
          (CommitStep(j) /\ jobs[j].action # "SPLIT") =>
              /\ jobs'[j].samp_pre = ct_samp
              /\ jobs'[j].samp_post = ct_samp'
              /\ ct_samp' # ct_samp => jobs'[j].samp_post # jobs'[j].samp_pre]_vars

\* the difference alone, on splits that made both a left and a right node
SampDeltaOfSplit ==
    [][\A j \in 1..Len(jobs) :
          (CommitStep(j) /\ jobs[j].action = "SPLIT" /\ jobs'[j].nodeidv[1] # -1) =>
              SampSub(jobs'[j].samp_post, jobs'[j].samp_pre) = SampSub(ct_samp', ct_samp)]_vars

\* ---------------------------------------------------------------------
\* Cancellation
\* ---------------------------------------------------------------------
NodeLists(nodes) == [p \in DOMAIN nodes |-> KidSeq(nodes[p].kvsets)]

\* the compaction step of job j
CompactStep(j) ==
    /\ j \in 1..Len(jobs)
    /\ j \in 1..Len(jobs')
    /\ jobs[j].stage = "submitted"
    /\ jobs'[j].stage = "compacted"

\* a step of job j after its compaction step: its commit or its release
FinishStep(j) ==
    /\ j \in 1..Len(jobs)
    /\ j \in 1..Len(jobs')
    /\ jobs[j].stage \in {"compacted", "committed"}
    /\ jobs'[j].stage # jobs[j].stage

\* C21: a job whose build returns shutdown while the cancel request is set is marked canceled, keeps the error shutdown to its release, hands nothing to the health channel and changes no kvset list; a job that enters with an error set builds nothing, opens no transaction and no kvset, and changes no kvset list.
CancelShortCircuits ==
    [][\A j \in 1..Len(jobs) :
          /\ (CompactStep(j) /\ jobs[j].err = NOERR /\ jobs'[j].err = ESHUTDOWN
                 /\ jobs'[j].cancel_request)
                => /\ jobs'[j].canceled
                   /\ jobs'[j].compact_health = <<>>
                   /\ NodeLists(tn') = NodeLists(tn)
          /\ (CompactStep(j) /\ jobs[j].err # NOERR)
                => /\ jobs'[j].err = jobs[j].err
                   /\ jobs'[j].outs = <<>>
                   /\ jobs'[j].compact_health = <<>>
                   /\ kid_next' = kid_next
                   /\ NodeLists(tn') = NodeLists(tn)
          /\ (FinishStep(j) /\ jobs[j].err # NOERR)
                => /\ jobs'[j].err = jobs[j].err
                   /\ jobs'[j].canceled = jobs[j].canceled
                   /\ jobs'[j].compact_health = jobs[j].compact_health
                   /\ NodeLists(tn') = NodeLists(tn)
          /\ (FinishStep(j) /\ jobs[j].err # NOERR /\ jobs[j].stage = "compacted")
                => /\ ~jobs'[j].txn_nak
                   /\ jobs'[j].opened = <<>>
                   /\ kvrefs' = kvrefs
                   /\ ct_samp' = ct_samp]_vars

\* a job canceled by its build and a job canceled before it started have
\* both been released
CancelWitness ==
    \E a, b \in 1..Len(jobs) :
        /\ jobs[a].stage = "released" /\ jobs[a].canceled /\ jobs[a].cancel_request
        /\ jobs[a].err = ESHUTDOWN /\ jobs[a].compact_health = <<>>
        /\ jobs[b].stage = "released" /\ jobs[b].canceled /\ ~jobs[b].cancel_request
        /\ jobs[b].err = ESHUTDOWN /\ jobs[b].outs = <<>>

\* ---------------------------------------------------------------------
\* get_completed_spill hands out each spill once
\* ---------------------------------------------------------------------
\* worker t gets a job from get_completed_spill
WorkerPicks(t) ==
    /\ t \in 1..Len(thr)
    /\ thr[t].pc = "pick"
    /\ thr'[t].pc = "commit"

\* C22: get_completed_spill returns only the head of the node's rspills, and only when it is done and no commit of it is in progress; it sets commit_in_progress and leaves the job on the list; no job is returned twice and no two workers hold the same spill for commit.
PickOnlyReadyHead ==
    [][/\ \A t \in 1..Len(thr) :
            WorkerPicks(t) =>
                LET h == thr'[t].cur
                    p == jobs[t].node
                IN /\ tn[p].rspills # <<>>
                   /\ h = Head(tn[p].rspills)
                   /\ jobs[h].rspill_done = 1
                   /\ jobs[h].commit_in_progress = 0
                   /\ jobs'[h].commit_in_progress = 1
                   /\ tn'[p].rspills = tn[p].rspills
                   /\ jobs[h].picks = 0
       /\ \A j \in 1..Len(jobs') :
            /\ jobs'[j].picks <= 1
            /\ Cardinality({t \in 1..Len(thr') :
                    thr'[t].pc \in {"commit", "release"} /\ thr'[t].cur = j}) <= 1
            /\ (jobs'[j].rspill_conc /\ jobs'[j].stage \in {"committing", "committed"})
                 => jobs'[j].commit_in_progress = 1]_vars

\* a worker holds for commit the spill of another worker, whose own
\* thread found nothing to pick and left
PickWitness ==
    \E t, u \in 1..Len(thr) :
        /\ thr[t].pc = "commit"
        /\ thr[t].cur = u /\ u # t
        /\ jobs[u].picks = 1
        /\ thr[u].pc = "exit"
        /\ jobs[t].stage = "released"

\* ---------------------------------------------------------------------
\* A spill leaves the rspills list at its release, as the head
\* ---------------------------------------------------------------------
OnRspills(nodes, j) == {p \in DOMAIN nodes : j \in Range(nodes[p].rspills)}

\* C23: a concurrent root spill that is released is the head of the rspills list of its node (the assertion tmp == w never fails), and a job leaves the list only in its release step, after its commit.
ReleaseTakesHead ==
    [][/\ "release_head" \notin asserts'
       /\ \A j \in 1..Len(jobs) : \A p \in DOMAIN tn :
            (p \in DOMAIN tn' /\ j \in Range(tn[p].rspills) /\ j \notin Range(tn'[p].rspills))
               => /\ Head(tn[p].rspills) = j
                  /\ tn'[p].rspills = Tail(tn[p].rspills)
                  /\ jobs[j].rspill_conc
                  /\ jobs[j].node = p
                  /\ jobs[j].stage = "committed"
                  /\ jobs'[j].stage = "released"
                  /\ jobs[j].err # NOERR => tn'[p].wedged
       /\ \A j \in 1..Len(jobs') :
            (jobs'[j].rspill_conc /\ ROOT \in DOMAIN tn')
               => (jobs'[j].stage # "released" <=> OnRspills(tn', j) = {jobs'[j].node})]_vars

\* a spill has been released while a younger spill, already built, waits
\* on the list
ReleaseHeadWitness ==
    \E a, b \in 1..Len(jobs) :
        /\ a < b
        /\ jobs[a].rspill_conc /\ jobs[a].stage = "released"
        /\ jobs[b].rspill_conc /\ jobs[b].rspill_done = 1 /\ jobs[b].stage = "compacted"
        /\ jobs[b].node \in DOMAIN tn
        /\ tn[jobs[b].node].rspills = <<b>>

\* ---------------------------------------------------------------------
\* The order of the journal and allocator calls of a commit
\* ---------------------------------------------------------------------
\* the outputs of a job that have an hblock
HblkOuts(w) == {i \in 1..Len(w.outs) : w.outs[i].kid # 0}

\* ev is in e before position k
Earlier(e, k, ev) == \E a \in 1..(k - 1) : e[a] = ev

\* the order of the calls e of a commit of job w
CommitOrder(w, e) ==
    /\ \A k \in 1..(Len(e) - 1) : e[k].ok
    /\ e # <<>> => e[1].op = "txstart"
    /\ \A k \in 2..Len(e) :
        /\ e[k].op # "txstart"
        /\ e[k].op = "add" =>
              \/ e[k - 1].op = "txstart"
              \/ e[k - 1].op = "open" /\ e[k - 1].i < e[k].i
        /\ e[k].op = "commit" => e[k - 1] = Ev("add", e[k].i)
        /\ e[k].op = "open" => e[k - 1] = Ev("commit", e[k].i)
        /\ e[k].op = "delete" =>
              /\ \A i \in HblkOuts(w) :
                    /\ Earlier(e, k, Ev("add", i))
                    /\ Earlier(e, k, Ev("commit", i))
                    /\ Earlier(e, k, Ev("open", i))
              /\ \A d \in 1..(e[k].i - 1) : Earlier(e, k, Ev("delete", d))
              /\ ~Earlier(e, k, Ev("delete", e[k].i))
        /\ e[k].op = "ack" =>
              /\ \A d \in 1..w.kvset_cnt : Earlier(e, k, Ev("delete", d))
              /\ e[k].i \in HblkOuts(w)
              /\ \A i \in HblkOuts(w) : i < e[k].i => Earlier(e, k, Ev("ack", i))
        /\ e[k].op = "update" =>
              /\ k = Len(e)
              /\ \A d \in 1..w.kvset_cnt : Earlier(e, k, Ev("delete", d))
              /\ \A i \in HblkOuts(w) : Earlier(e, k, Ev("ack", i))

\* C24: the calls of one commit are, in this order: the transaction start; for each output in index order its add record, its mblock commit and its open; after all outputs one delete record per input; after all delete records the acks of the adds; the tree update only after every ack succeeded. No delete record is logged and no node is changed before the mblocks of all outputs are committed.
CommitCallsInOrder ==
    [][\A j \in 1..Len(jobs) :
          (j \in 1..Len(jobs') /\ jobs[j].stage # "committed"
             /\ jobs'[j].stage = "committed")
            => LET e == jobs'[j].events
               IN /\ CommitOrder(jobs[j], e)
                  /\ jobs[j].err # NOERR => e = <<>>
                  /\ (tn' # tn \/ ct_samp' # ct_samp \/ route_map' # route_map)
                       => (e # <<>> /\ e[Len(e)].op = "update")
                  /\ (jobs'[j].err = NOERR) => (e # <<>> /\ e[Len(e)] = Ev("update", 0))]_vars

\* a commit of two inputs and two outputs that reached its tree update
CommitOrderWitness ==
    \E j \in 1..Len(jobs) :
        /\ jobs[j].stage = "committed" /\ jobs[j].err = NOERR
        /\ jobs[j].kvset_cnt >= 2
        /\ Cardinality(HblkOuts(jobs[j])) >= 2
        /\ Len(jobs[j].events) >= 12

\* ---------------------------------------------------------------------
\* compc of the output of a k-compact or kv-compact
\* ---------------------------------------------------------------------
\* the commit of job j, a k/kv-compact, puts an output on the node's list
CompactOutputStep(j) ==
    /\ CommitStep(j)
    /\ jobs[j].action \in {"COMPACT_K", "COMPACT_KV"}
    /\ jobs[j].outs[1].kid # 0

\* the compc of the kvset with id kid on the list
CompcOf(list, kid) == list[IndexOf(list, kid)].compc

\* the next older sibling of mark on the list, <<>> when mark is the tail
OlderSibling(list, mark) ==
    IF IndexOf(list, mark) = Len(list) THEN <<>> ELSE <<list[IndexOf(list, mark) + 1]>>

\* C25 as stated: the output has the carried compc plus 1 unless the next older sibling of mark has a smaller compc, and then the carried compc.
CompcBumpedUnlessSmaller ==
    [][\A j \in 1..Len(jobs) :
          CompactOutputStep(j) =>
              LET w   == jobs[j]
                  sib == OlderSibling(tn[w.node].kvsets, w.mark)
              IN CompcOf(tn'[w.node].kvsets, w.outs[1].kid) =
                     IF sib # <<>> /\ sib[1].compc < w.compc THEN w.compc ELSE w.compc + 1]_vars

\* C25: the output of a k-compact or kv-compact has the carried compc plus 1 when mark is the tail of the list or its next older sibling has a larger compc, and the carried compc when that sibling's compc is smaller than or equal to the carried one.
CompcBumpedUnlessNotLarger ==
    [][\A j \in 1..Len(jobs) :
          CompactOutputStep(j) =>
              LET w   == jobs[j]
                  sib == OlderSibling(tn[w.node].kvsets, w.mark)
              IN CompcOf(tn'[w.node].kvsets, w.outs[1].kid) =
                     IF sib # <<>> /\ sib[1].compc <= w.compc THEN w.compc ELSE w.compc + 1]_vars

\* a committed output that kept the carried compc next to an older sibling
\* with the same compc
CompcWitness ==
    \E j \in 1..Len(jobs) :
        /\ jobs[j].stage = "committed" /\ jobs[j].err = NOERR
        /\ jobs[j].action \in {"COMPACT_K", "COMPACT_KV"}
        /\ jobs[j].outs[1].kid # 0
        /\ LET list == tn[jobs[j].node].kvsets
               x    == IndexOf(list, jobs[j].outs[1].kid)
           IN /\ x < Len(list)
              /\ list[x].compc = jobs[j].compc
              /\ list[x + 1].compc = jobs[j].compc

\* ---------------------------------------------------------------------
\* The change generation of a node
\* ---------------------------------------------------------------------
\* the kvset list of node p is not the same after the step
ListChanged(p) ==
    /\ p \in DOMAIN tn /\ p \in DOMAIN tn'
    /\ KidSeq(tn'[p].kvsets) # KidSeq(tn[p].kvsets)

\* the step is a commit that failed
FailedCommitStep ==
    \E j \in 1..Len(jobs) :
        /\ j \in 1..Len(jobs')
        /\ jobs[j].stage # "committed" /\ jobs'[j].stage = "committed"
        /\ jobs'[j].err # NOERR

\* the step is the commit of a job of one of these actions
CommitOf(actions) ==
    \E j \in 1..Len(jobs) : CommitStep(j) /\ jobs[j].action \in actions

\* C26: after each ingest, k/kv-compact update, spill update, split update and capped trim that succeeds, tn_cgen of every node whose kvset list changed is larger than before.
CgenBumpedOnChange ==
    [][\A p \in DOMAIN tn :
          (ListChanged(p) /\ ~FailedCommitStep) => tn'[p].cgen > tn[p].cgen]_vars

\* the same for the ingest, the spill update and the k/kv-compact update
\* that adds an output only
CgenBumpedByAdd ==
    [][\A p \in DOMAIN tn :
          (/\ ListChanged(p)
           /\ ~FailedCommitStep
           /\ ~CommitOf({"SPLIT"})
           /\ trim' = trim
           /\ \A j \in 1..Len(jobs) :
                (CommitStep(j) /\ jobs[j].action \in {"COMPACT_K", "COMPACT_KV"})
                   => jobs[j].outs[1].kid # 0)
            => tn'[p].cgen > tn[p].cgen]_vars

\* the k/kv-compact update without an output, the split update and the
\* capped trim, each alone
CgenBumpedByEmptyCompact ==
    [][\A p \in DOMAIN tn :
          (ListChanged(p) /\ CommitOf({"COMPACT_K", "COMPACT_KV"}))
            => tn'[p].cgen > tn[p].cgen]_vars

CgenBumpedBySplit ==
    [][\A p \in DOMAIN tn :
          (ListChanged(p) /\ CommitOf({"SPLIT"})) => tn'[p].cgen > tn[p].cgen]_vars

CgenBumpedByTrim ==
    [][\A p \in DOMAIN tn :
          (ListChanged(p) /\ trim' # trim) => tn'[p].cgen > tn[p].cgen]_vars

\* ---------------------------------------------------------------------
\* The work-ids at the release of a job
\* ---------------------------------------------------------------------
\* cn_comp_release of job j runs in this step
ReleaseOf(j) ==
    /\ j \in 1..Len(jobs) /\ j \in 1..Len(jobs')
    /\ jobs[j].stage = "committed"
    /\ jobs'[j].stage = "released"

\* the release of job j leaves its inputs where they are with the work-id
\* cleared, or finds them gone and clears nothing
ReleaseUnmarks(j) ==
    LET w   == jobs[j]
        old == tn[w.node].kvsets
        new == tn'[w.node].kvsets
        idx == IndexOf(old, w.mark)
    IN IF w.err # NOERR
       THEN /\ KidSeq(new) = KidSeq(old)
            /\ idx >= w.kvset_cnt
            /\ \A i \in 1..Len(old) :
                  IF i \in (idx - w.kvset_cnt + 1)..idx
                  THEN old[i].workid = w.dgen_lo /\ new[i].workid = 0
                  ELSE new[i].workid = old[i].workid
       ELSE /\ new = old
            /\ idx = 0

\* a work-id that is cleared is cleared by the release of the job that set it
ClearedByOwner ==
    \A p \in DOMAIN tn : \A i \in 1..Len(tn[p].kvsets) :
        LET kv == tn[p].kvsets[i]
            x  == IF p \in DOMAIN tn' THEN IndexOf(tn'[p].kvsets, kv.kid) ELSE 0
        IN (x # 0 /\ kv.workid # 0 /\ tn'[p].kvsets[x].workid = 0)
             => \E j \in 1..Len(jobs) :
                   /\ ReleaseOf(j)
                   /\ jobs[j].node = p
                   /\ jobs[j].err # NOERR
                   /\ jobs[j].dgen_lo = kv.workid

\* C27: a job released with an error has the work-id of each of its kvset_cnt inputs, from mark toward the head, reset to 0, and those kvsets are on the node's list where they were; a job released without error clears no work-id and its inputs are off the list; only the job that reserved a kvset clears its work-id.
ReleaseClearsOwnMarks ==
    [][/\ \A j \in 1..Len(jobs) : ReleaseOf(j) => ReleaseUnmarks(j)
       /\ ClearedByOwner]_vars

\* the same for every release but that of a split whose tree update failed
ReleaseClearsOwnMarksButSplit ==
    [][/\ \A j \in 1..Len(jobs) :
            (ReleaseOf(j) /\ ~(jobs[j].action = "SPLIT" /\ jobs[j].err # NOERR
                                /\ jobs[j].events # <<>>
                                /\ jobs[j].events[Len(jobs[j].events)].op = "update"))
               => ReleaseUnmarks(j)
       /\ ClearedByOwner]_vars

\* ---------------------------------------------------------------------
\* The walk of the capped trimmer
\* ---------------------------------------------------------------------
\* a run of the trimmer that got past the test first == last ends in this
\* step
TrimRunStep == trim.pc = "idle" /\ trim' # trim /\ trim'.first # NULL

\* the number of kvsets from index i toward the first, never the first,
\* that are in the set of indices ok, up to the first that is not
RECURSIVE TailRun(_, _)
TailRun(i, ok) == IF i <= 1 \/ i \notin ok THEN 0 ELSE 1 + TailRun(i - 1, ok)

\* C28 as stated: a kvset is in the expired run when its max seqno is below the horizon and no ptomb is remembered or the ptomb precedes its max key.
ExpiredAsStated(list, pt, horizon) ==
    {i \in 1..Len(list) :
        /\ kvset_get_seqno_max(list[i]) < horizon
        /\ (pt.ptlen = 0 \/ pt.ptomb < kvset_get_max_key(list[i]))}

TrimWalkAsStated ==
    [][TrimRunStep =>
          /\ trim'.horizon = Min(trim'.seqno_horizon, trim'.pt.ptseq)
          /\ trim'.kvset_cnt =
                TailRun(Len(tn[ROOT].kvsets),
                        ExpiredAsStated(tn[ROOT].kvsets, trim'.pt, trim'.horizon))]_vars

\* a kvset is in the expired run when a ptomb is remembered, its max seqno
\* is below the horizon and its max key does not follow the ptomb
Expired(list, pt, horizon) ==
    {i \in 1..Len(list) :
        /\ pt.ptlen # 0
        /\ kvset_get_seqno_max(list[i]) < horizon
        /\ kvset_get_max_key(list[i]) <= pt.ptomb}

\* C28: the trimmer, walking from the last root kvset toward the first and never taking the first, includes a kvset in the expired run when a ptomb is remembered, the kvset's max seqno is below the horizon and its max key is not after the ptomb, and stops at the first kvset that does not satisfy this; the horizon is min(sequence horizon, ptomb seqno) and the ptomb is the one remembered at the snapshot.
TrimWalk ==
    [][TrimRunStep =>
          /\ trim'.pt = ct_last_pt
          /\ trim'.first = tn[ROOT].kvsets[1].kid
          /\ trim'.horizon = Min(trim'.seqno_horizon, trim'.pt.ptseq)
          /\ trim'.kvset_cnt =
                TailRun(Len(tn[ROOT].kvsets),
                        Expired(tn[ROOT].kvsets, trim'.pt, trim'.horizon))
          /\ trim'.pc = "apply" =>
                trim'.mark = tn[ROOT].kvsets[Len(tn[ROOT].kvsets) - trim'.kvset_cnt + 1].kid]_vars

\* a walk over three kvsets that took the oldest and stopped at the second
TrimWalkWitness ==
    /\ trim.pc = "apply"
    /\ trim.kvset_cnt = 1
    /\ Len(tn[ROOT].kvsets) = 3
    /\ trim.first = tn[ROOT].kvsets[1].kid
    /\ trim.mark = tn[ROOT].kvsets[3].kid

\* ---------------------------------------------------------------------
\* A run of the trimmer whose journal fails
\* ---------------------------------------------------------------------
\* a run that chose kvsets to retire and met a journal failure
TrimFailedStep == TrimRunStep /\ trim'.pc = "idle" /\ trim'.kvset_cnt > 0

\* C29: when the transaction of the trimmer cannot be started or a delete record fails, the root's kvset list, every kvset reference count and the tree samp are as before the run, a nak is issued exactly when the transaction had been opened, and nothing else is done but the eviction advice on at most one kvset.
TrimFailureLeavesTree ==
    [][TrimFailedStep =>
          /\ tn' = tn
          /\ kvrefs' = kvrefs
          /\ ct_samp' = ct_samp
          /\ UNCHANGED <<ct_nodes, route_map, jobs, ingest_dgen, kid_next, ct_last_pt, asserts>>
          /\ trim'.naks = (IF trim'.txn THEN 1 ELSE 0)
          /\ ~trim'.txn => trim'.logged = <<>>
          /\ Len(trim'.logged) < trim'.kvset_cnt
          /\ Len(trim'.evicted) <= 1
          /\ Range(trim'.evicted) \subseteq Range(KidsOf(tn[ROOT].kvsets))]_vars

\* a run that chose two kvsets, logged the delete record of the first,
\* failed at the second, issued the nak and advised an eviction
TrimFailureWitness ==
    /\ trim.pc = "idle"
    /\ trim.kvset_cnt = 2
    /\ trim.txn /\ trim.naks = 1
    /\ Len(trim.logged) = 1
    /\ trim.evicted # <<>>
    /\ Len(tn[ROOT].kvsets) = 3

\* ---------------------------------------------------------------------
\* The trimmer and concurrent ingests
\* ---------------------------------------------------------------------
\* step 3 of the trimmer runs in this step
TrimApplyStep == trim.pc = "apply" /\ trim'.pc = "idle"

\* C30: a capped trim that runs concurrently with ingests takes off the root list exactly the run from its mark to the tail that it chose from its snapshot; the kvsets ingested at the head after the snapshot stay, and the kvsets removed are exactly those a delete record was logged for.
TrimRemovesLoggedRun ==
    [][TrimApplyStep =>
          LET old == KidsOf(tn[ROOT].kvsets)
              new == KidsOf(tn'[ROOT].kvsets)
              at  == IndexOf(tn[ROOT].kvsets, trim.mark)
          IN /\ at # 0
             /\ new = SubSeq(old, 1, at - 1)
             /\ SubSeq(old, at, Len(old)) = trim.logged
             /\ Len(trim.logged) = trim.kvset_cnt
             /\ IndexOf(tn'[ROOT].kvsets, trim.first) # 0
             /\ \A p \in DOMAIN tn : p # ROOT => tn'[p] = tn[p]]_vars

\* a run was cut off after an ingest had put a kvset before the first of
\* the snapshot; that kvset is on the list, the logged kvsets are not
TrimRaceWitness ==
    /\ trim.pc = "idle"
    /\ trim.raced
    /\ trim.logged # <<>>
    /\ tn[ROOT].kvsets # <<>>
    /\ Range(trim.logged) \cap Range(KidsOf(tn[ROOT].kvsets)) = {}

\* ---------------------------------------------------------------------
\* Dropping tombstones
\* ---------------------------------------------------------------------
\* the compaction step of job j in which its preparation succeeds
PreparedStep(j) ==
    /\ CompactStep(j)
    /\ jobs[j].err = NOERR
    /\ jobs'[j].err # EBUG

\* C31: after preparation the dropping of tombstones is enabled for a job exactly when its action is not spill and its mark is the tail of the kvset list of its node; it is never enabled for a spill nor when the node holds a kvset older than the inputs.
DropTombsIffOldest ==
    [][\A j \in 1..Len(jobs) :
          PreparedStep(j) =>
              LET w    == jobs[j]
                  list == tn[w.node].kvsets
              IN /\ jobs'[j].drop_tombs <=>
                        /\ w.action # "SPILL"
                        /\ list[Len(list)].kid = w.mark
                 /\ w.action = "SPILL" => ~jobs'[j].drop_tombs
                 /\ (\E i \in 1..Len(list) : list[i].dgen < w.dgen_lo)
                        => ~jobs'[j].drop_tombs]_vars

\* a prepared compaction whose mark is the tail of the list of its node
\* and that drops tombstones
DropTombsWitness ==
    \E j \in 1..Len(jobs) :
        LET list == tn[jobs[j].node].kvsets
        IN /\ jobs[j].stage = "compacted" /\ jobs[j].err = NOERR
           /\ jobs[j].action # "SPILL"
           /\ jobs[j].drop_tombs
           /\ Len(list) > 1
           /\ list[Len(list)].kid = jobs[j].mark

\* ---------------------------------------------------------------------
\* Inserting kvsets while the tree is built
\* ---------------------------------------------------------------------
\* a call of cn_tree_insert_kvset is made in this step
InsertStep == phase = "create" /\ kid_next' = kid_next + 1

\* the nodes with the node id of the last call
InsertTarget(nodes, call) == {p \in DOMAIN nodes : nodes[p].nodeid = call.nodeid}

StrictlyDecreasing(list) ==
    \A i \in 1..Len(list), k \in 1..Len(list) : i < k => list[i].dgen > list[k].dgen

\* the kvsets of S, which have distinct dgens, largest dgen first
RECURSIVE ByDgen(_)
ByDgen(S) ==
    IF S = {} THEN <<>>
    ELSE LET m == CHOOSE x \in S : \A y \in S : y.dgen <= x.dgen
         IN <<m>> \o ByDgen(S \ {m})

\* the dgen of the call is the dgen of an entry of the list
DuplicateDgen(list, call) == \E i \in 1..Len(list) : list[i].dgen = call.dgen

\* the call is for a node that is not in the tree: no list changes and the
\* call, when it returns, returns the Bug error
InsertUnknownNode ==
    InsertTarget(tn, insert_call') = {} =>
        /\ tn' = tn
        /\ "insert_node" \in asserts'
        /\ phase' = "create" => insert_call'.err = EBUG

\* the call adds a dgen the node does not hold: the list stays sorted by
\* strictly decreasing dgen, whatever the order of the calls was
InsertDistinct ==
    \A p \in InsertTarget(tn, insert_call') :
        ~DuplicateDgen(tn[p].kvsets, insert_call') =>
            /\ phase' = "create" /\ insert_call'.err = NOERR
            /\ asserts' = asserts
            /\ Len(tn'[p].kvsets) = Len(tn[p].kvsets) + 1
            /\ \A q \in DOMAIN tn : q # p => tn'[q] = tn[q]
            /\ StrictlyDecreasing(tn[p].kvsets) =>
                   /\ StrictlyDecreasing(tn'[p].kvsets)
                   /\ tn'[p].kvsets = ByDgen(Range(tn'[p].kvsets))
                   /\ Range(tn[p].kvsets) \subseteq Range(tn'[p].kvsets)
                   /\ \E e \in Range(tn'[p].kvsets) :
                         e.kid = kid_next' /\ e.dgen = insert_call'.dgen

NewHead(p) ==
    /\ p \in DOMAIN tn'
    /\ tn'[p].kvsets # <<>>
    /\ Tail(tn'[p].kvsets) = tn[p].kvsets

\* the accumulated kvset stats of a node (ns_kst)
Kst(ns) == <<ns.kvsets, ns.keys, ns.alen, ns.wlen>>

KstPlus(ns, kv) ==
    <<ns.kvsets + 1, ns.keys + kvset_stats(kv).keys, ns.alen + kvset_stats(kv).alen,
      ns.wlen + kvset_stats(kv).wlen>>

\* the accumulated kvset stats of node n are those of its list
KstOfList(n) == Kst(n.ns) = Kst(cn_tree_samp_update_compact(ZeroSamp, n).node.ns)

\* C33: update_ingest folds the stats of the head kvset into the node only when the dgen of the head is above the watermark of the node, so that a second call without a new head changes neither the node nor the tree samp; after head insertions that are each followed by update_ingest, into a node whose stats were those of its list, the accumulated kvset stats of the node are those update_compact computes from the list.
IngestFoldsNewHeadOnce ==
    [][\A p \in DOMAIN tn :
          NewHead(p) =>
              LET n     == tn'[p]
                  head  == Head(n.kvsets)
                  again == cn_tree_samp_update_ingest(ct_samp', n)
                  full  == cn_tree_samp_update_compact(ct_samp', n)
              IN /\ head.dgen > tn[p].incr_dgen
                 /\ n.incr_dgen = head.dgen
                 /\ Kst(n.ns) = KstPlus(tn[p].ns, head)
                 /\ again.node = n
                 /\ again.total = ct_samp'
                 /\ KstOfList(tn[p]) => Kst(n.ns) = Kst(full.node.ns)]_vars

\* the root after two ingests, its stats those of its list
IngestFoldWitness ==
    LET n == tn[ROOT]
    IN /\ phase = "open"
       /\ Len(n.kvsets) >= 2
       /\ KstOfList(n)
       /\ n.incr_dgen = Head(n.kvsets).dgen
       /\ n.ns.kvsets = Len(n.kvsets)

\* ---------------------------------------------------------------------
\* The samp stats of the halves of a split
\* ---------------------------------------------------------------------
\* the node stats and the samp of node n are those a full recomputation
\* over its list gives
StatsOfList(n) ==
    LET full == cn_tree_samp_update_compact(ZeroSamp, n).node
    IN n.ns = full.ns /\ n.samp = full.samp

\* the step in which the split of job j updates the tree with success
SplitCommitStep(j) == CommitStep(j) /\ jobs[j].action = "SPLIT"

\* C34: after every split update that succeeds the samp stats of both nodes of the split are recomputed from their new lists, also when one half gets no kvset and no left node is made: the node stats and the samp of the right node are then those of a full recomputation over its list.
SplitRecomputesBoth ==
    [][\A j \in 1..Len(jobs) :
          SplitCommitStep(j) =>
              \A p \in {jobs[j].node} \cup NewNodes : StatsOfList(tn'[p])]_vars

\* the same for the splits that made a node on either side
SplitRecomputesBothIfTwo ==
    [][\A j \in 1..Len(jobs) :
          (SplitCommitStep(j) /\ jobs'[j].nodeidv[1] # CN_TREE_INVALID_NODEID
                              /\ jobs'[j].nodeidv[2] # CN_TREE_INVALID_NODEID) =>
              \A p \in {jobs[j].node} \cup NewNodes : StatsOfList(tn'[p])]_vars

\* the same for the splits that made no left node
SplitRecomputesRightAlone ==
    [][\A j \in 1..Len(jobs) :
          (SplitCommitStep(j) /\ jobs'[j].nodeidv[1] = CN_TREE_INVALID_NODEID) =>
              StatsOfList(tn'[jobs[j].node])]_vars

\* ---------------------------------------------------------------------
\* The work descriptor after its release
\* ---------------------------------------------------------------------
\* thread t reads cw_node of its own job in this step
ReadsOwnNode(t) == thr[t].pc = "node" /\ thr'[t].pc # "node"

\* no step changes the descriptor of a job that is released
NoWriteAfterRelease ==
    [][\A j \in 1..Len(jobs) :
          (jobs[j].stage = "released" /\ j \in 1..Len(jobs')) => jobs'[j] = jobs[j]]_vars

\* C35: in a concurrent root spill, once a worker has set rspill_done on its job, no worker reads or writes the descriptor of that job after the job is released by the worker that committed it; the read of the node of the job that follows the setting of rspill_done never comes after the release of the job by another worker.
NoUseAfterRelease ==
    [][\A t \in 1..Len(thr) :
          /\ ReadsOwnNode(t) => jobs[t].stage # "released"
          /\ (jobs[t].stage = "released" /\ t \in 1..Len(jobs')) => jobs'[t] = jobs[t]]_vars

\* ---------------------------------------------------------------------
\* A spill into a leaf that is being split
\* ---------------------------------------------------------------------
\* the kvsets held by the nodes
KidsIn(nodes) == UNION {Range(KidsOf(nodes[n].kvsets)) : n \in DOMAIN nodes}

\* the kvsets on the list of the node of job j that are not inputs of it
NotInputs(j) ==
    LET list == tn[jobs[j].node].kvsets
    IN Range(KidsOf(list)) \ Range(KidsOf(InputsOf(list, jobs[j])))

\* C36: a split update retires only the inputs of the split: a kvset that a root spill has put at the head of the source leaf after the preparation of the split and before its tree update is in a node of the tree after the split and is not marked for deletion.
SplitRetiresOnlyInputs ==
    [][\A j \in 1..Len(jobs) :
          SplitCommitStep(j) =>
              \A k \in NotInputs(j) :
                  /\ k \in KidsIn(tn')
                  /\ k \in DOMAIN kvrefs'
                  /\ kvrefs'[k] = kvrefs[k]]_vars

\* a split that commits on a list that holds its inputs only retires them all
SplitRetiresInputs ==
    [][\A j \in 1..Len(jobs) :
          SplitCommitStep(j) =>
              (NotInputs(j) = {} =>
                  Range(KidsOf(tn[jobs[j].node].kvsets)) \cap KidsIn(tn') = {})]_vars

\* ---------------------------------------------------------------------
\* A commit that fails
\* ---------------------------------------------------------------------
\* cn_comp_commit of job j ends with an error in this step
CommitFailedStep(j) ==
    /\ j \in 1..Len(jobs) /\ j \in 1..Len(jobs')
    /\ jobs[j].stage # "committed" /\ jobs'[j].stage = "committed"
    /\ jobs'[j].err # NOERR

\* the tree as the claim lists it: the kvset list, the node id and the
\* busy counter of every node, the route map and the node list
TreeShape(nodes, order, map) ==
    [lists |-> NodeLists(nodes),
     ids   |-> [p \in DOMAIN nodes |-> nodes[p].nodeid],
     busy  |-> [p \in DOMAIN nodes |-> nodes[p].busycnt],
     route |-> map,
     order |-> order]

\* the tree is as it was and the inputs of job j hold their references
TreeUntouched(j) ==
    /\ TreeShape(tn', ct_nodes', route_map') = TreeShape(tn, ct_nodes, route_map)
    /\ \A k \in Range(KidsOf(InputsOf(tn[jobs[j].node].kvsets, jobs[j]))) :
          k \in DOMAIN kvrefs => (k \in DOMAIN kvrefs' /\ kvrefs'[k] = kvrefs[k])

\* the tree update of the split of job j was entered and failed
SplitUpdateFailed(j) ==
    /\ jobs'[j].action = "SPLIT"
    /\ jobs'[j].events # <<>>
    /\ jobs'[j].events[Len(jobs'[j].events)].op = "update"

\* C37: a commit is all or nothing for the tree: when cn_comp_commit ends with an error, also one of the split update, the kvset list, the node id and the busy counter of every node, the route map and the node list are as before the commit and no input is retired; only a commit whose transaction is not nak'ed changes the tree.
CommitAllOrNothing ==
    [][\A j \in 1..Len(jobs) :
          /\ CommitFailedStep(j) => TreeUntouched(j)
          /\ (j \in 1..Len(jobs') /\ jobs[j].stage # "committed"
                /\ jobs'[j].stage = "committed" /\ jobs'[j].naks > jobs[j].naks)
                => TreeShape(tn', ct_nodes', route_map') = TreeShape(tn, ct_nodes, route_map)]_vars

\* the same for every failed commit but that of a split whose tree update
\* failed
CommitAllOrNothingButSplit ==
    [][\A j \in 1..Len(jobs) :
          (CommitFailedStep(j) /\ ~SplitUpdateFailed(j)) => TreeUntouched(j)]_vars

\* ---------------------------------------------------------------------
\* The newest kvset of a capped tree
\* ---------------------------------------------------------------------
\* a run of the trimmer that does something starts in this step
TrimActsStep == trim.pc = "idle" /\ trim' # trim

\* C38: the capped trimmer never removes the newest kvset of the root: it does nothing when the root holds at most one kvset, its walk stops before the first entry of its snapshot, and after a trim the root list is not empty and holds every kvset that was at or above the first entry of the snapshot.
TrimKeepsNewest ==
    [][/\ TrimActsStep =>
            /\ Len(tn[ROOT].kvsets) >= 2
            /\ tn' = tn /\ kvrefs' = kvrefs
            /\ trim'.first = tn[ROOT].kvsets[1].kid
            /\ trim'.first \notin Range(trim'.logged)
            /\ trim'.pc = "apply" =>
                  /\ trim'.mark # trim'.first
                  /\ IndexOf(tn[ROOT].kvsets, trim'.mark) > 1
                  /\ trim'.kvset_cnt < Len(tn[ROOT].kvsets)
       /\ TrimApplyStep =>
            LET old == tn[ROOT].kvsets
                new == tn'[ROOT].kvsets
                at  == IndexOf(old, trim.first)
            IN /\ new # <<>>
               /\ Head(new) = Head(old)
               /\ at # 0
               /\ Len(new) >= at
               /\ SubSeq(new, 1, at) = SubSeq(old, 1, at)
               /\ \A k \in Range(KidsOf(SubSeq(old, 1, at))) : kvrefs'[k] = kvrefs[k]]_vars

\* a trim has cut the root list down to its newest kvset
TrimToNewestWitness ==
    /\ trim.pc = "idle"
    /\ Len(trim.logged) >= 2
    /\ ~trim.raced
    /\ Len(tn[ROOT].kvsets) = 1
    /\ kvrefs[tn[ROOT].kvsets[1].kid] >= 1

\* ---------------------------------------------------------------------
\* Root spills interleaved with leaf splits
\* ---------------------------------------------------------------------
\* the route map resolves every key of the kvsets of leaf p to p
RoutedTo(nodes, map, p) ==
    \A k \in KeysOf(nodes[p].kvsets) : route_map_lookup(map, k) = p

\* the update of a spill runs in this step
SpillCommitStep(j) == CommitStep(j) /\ jobs[j].action = "SPILL"

\* output o of a spill is on the list of its destination, and the route map
\* resolves its keys to that node
InstalledWhereRouted(nodes, map, o) ==
    /\ o.kid \in Range(KidSeq(nodes[o.dest].kvsets))
    /\ \A k \in o.keys : route_map_lookup(map, k) = o.dest

\* a split of node p has run its update, with or without success
SplitRan(p) ==
    \E h \in 1..Len(jobs) :
        /\ jobs[h].action = "SPLIT" /\ jobs[h].node = p
        /\ jobs[h].stage \in {"committed", "released"}

\* C39: after any interleaving of root spills and leaf splits, a spill output whose destination was chosen before a split of that node committed is never installed in a node the route map no longer resolves its keys to: every kvset a spill update puts on a leaf has all its keys resolved to that leaf.
SpillInstallsWhereRouted ==
    [][\A j \in 1..Len(jobs) :
          SpillCommitStep(j) =>
              \A i \in 1..Len(jobs'[j].outs) :
                  jobs'[j].outs[i].kid # 0
                  => InstalledWhereRouted(tn', route_map', jobs'[j].outs[i])]_vars

\* every split of node p that has run its update succeeded and left kvsets
\* on p
SplitsKeptRight(p) ==
    \A h \in 1..Len(jobs) :
        (jobs[h].action = "SPLIT" /\ jobs[h].node = p
            /\ jobs[h].stage \in {"committed", "released"})
        => (jobs[h].err = NOERR /\ jobs[h].nodeidv[2] # CN_TREE_INVALID_NODEID)

\* the same for the destinations whose splits succeeded with a right half
SpillInstallsWhereRoutedRightKept ==
    [][\A j \in 1..Len(jobs) :
          SpillCommitStep(j) =>
              \A i \in 1..Len(jobs'[j].outs) :
                  (jobs'[j].outs[i].kid # 0 /\ SplitsKeptRight(jobs'[j].outs[i].dest))
                  => InstalledWhereRouted(tn', route_map', jobs'[j].outs[i])]_vars

\* the same for the outputs whose destination no split has updated
SpillInstallsWhereRoutedNoSplit ==
    [][\A j \in 1..Len(jobs) :
          SpillCommitStep(j) =>
              \A i \in 1..Len(jobs'[j].outs) :
                  (jobs'[j].outs[i].kid # 0 /\ ~SplitRan(jobs'[j].outs[i].dest))
                  => InstalledWhereRouted(tn', route_map', jobs'[j].outs[i])]_vars

\* every leaf holds only keys the route map resolves to it, as long as no
\* split has run its update
LeafKeysRouted ==
    (phase = "open" /\ \A p \in Leaves : ~SplitRan(p))
    => \A p \in Leaves : RoutedTo(tn, route_map, p)
====
